---- MODULE Spec2Model ----
(***************************************************************************)
(* Authentication and session-token subsystem of the contacts API:         *)
(* src/routes/auth.py, src/services/auth.py, src/repository/users.py.      *)
(*                                                                         *)
(* The persistent store is the users table, the session cache is the Redis *)
(* keyspace "user:<email>", the clock is datetime.utcnow() in whole        *)
(* seconds (the resolution of the iat and exp claims of a JWT).            *)
(***************************************************************************)
EXTENDS Integers, Sequences, FiniteSets, TLC

VARIABLES
    users,      \* the users table: a sequence of rows, row i has id i
    cache,      \* Redis: key (email of "user:<email>") -> entry
    now,        \* datetime.utcnow(), in seconds
    ticks,      \* how many times the clock has advanced
    issued,     \* every token string the service has encoded so far
    tasks,      \* BackgroundTasks: emails waiting to be sent
    last,       \* the request handled by the last step and its response
    pre,        \* the store, cache, tokens and tasks as that request found them
    req,        \* requests in flight (handlers suspended at a store or cache call)
    contacts,   \* the contacts table and its id sequence
    today       \* date.today()

vars == <<users, cache, now, ticks, issued, tasks, last, pre, req, contacts, today>>

---------------------------------------------------------------------------
(* Bounds of the model *)

MaxTicks == 2
MaxTokens == 5
MaxTasks == 1
MaxReqs == 2

(* Program constants *)

AccessMinutes == 15
RefreshDays == 7
EmailTokenDays == 7
ResetTokenDays == 1
CacheTTL == 900

SecondsPerMinute == 60
SecondsPerDay == 86400

\* The clock advances by one second, by the access-token lifetime / cache TTL,
\* or by the refresh-token lifetime.
TickSteps == {1, AccessMinutes * SecondsPerMinute, RefreshDays * SecondsPerDay}

Emails == {"ann@x.org", "Ann@x.org"}
Passwords == {"pw1", "pw2"}
\* Two form passwords longer than 72 bytes that share their first 72 bytes
\* (the login and reset forms put no bound on the password's length)
LongPasswords == {"<72 bytes>A", "<72 bytes>B"}
FormPasswords == Passwords \cup LongPasswords
Salts == {1}

\* func.lower of an email address
Lower(e) == IF e = "Ann@x.org" THEN "ann@x.org" ELSE e

---------------------------------------------------------------------------
(* Calendar: datetime.date and timedelta, proleptic Gregorian, years        *)
(* date.min.year .. ; a date is its year, month and day.                    *)

MinYear == 1

Date(y, m, d) == [year |-> y, month |-> m, day |-> d]

\* What date arithmetic yields when the result is before date.min
\* (Python raises OverflowError)
OutOfRange == Date(0, 0, 0)

IsLeap(y) == (y % 4 = 0 /\ y % 100 # 0) \/ y % 400 = 0

DaysInMonth(y, m) ==
    IF m = 2 THEN (IF IsLeap(y) THEN 29 ELSE 28)
    ELSE IF m \in {4, 6, 9, 11} THEN 30 ELSE 31

DaysInYear(y) == IF IsLeap(y) THEN 366 ELSE 365

RECURSIVE DaysBeforeMonth(_, _)
DaysBeforeMonth(y, m) ==
    IF m = 1 THEN 0 ELSE DaysBeforeMonth(y, m - 1) + DaysInMonth(y, m - 1)

DayOfYear(d) == DaysBeforeMonth(d.year, d.month) + d.day

RECURSIVE FromDayOfYear(_, _, _)
FromDayOfYear(y, m, n) ==
    IF n <= DaysInMonth(y, m) THEN Date(y, m, n)
    ELSE FromDayOfYear(y, m + 1, n - DaysInMonth(y, m))

\* date + timedelta(days=n), for less than a year either way
AddDays(d, n) ==
    LET doy == DayOfYear(d) + n
    IN IF doy < 1
       THEN (IF d.year - 1 < MinYear THEN OutOfRange
             ELSE FromDayOfYear(d.year - 1, 1, doy + DaysInYear(d.year - 1)))
       ELSE IF doy > DaysInYear(d.year)
       THEN FromDayOfYear(d.year + 1, 1, doy - DaysInYear(d.year))
       ELSE FromDayOfYear(d.year, 1, doy)

\* date.replace(year=y) raises ValueError when the day does not exist in y
ReplaceYearFails(d, y) == d.month = 2 /\ d.day = 29 /\ ~IsLeap(y)
ReplaceYear(d, y) == Date(y, d.month, d.day)

\* d1 < d2, d1 <= d2
DateLess(d1, d2) ==
    \/ d1.year < d2.year
    \/ d1.year = d2.year /\ d1.month < d2.month
    \/ d1.year = d2.year /\ d1.month = d2.month /\ d1.day < d2.day
DateLE(d1, d2) == d1 = d2 \/ DateLess(d1, d2)

---------------------------------------------------------------------------
(* Token codec: jose.jwt.  A token string is modelled by what determines   *)
(* it: the header's algorithm, the key that signed it and its claim set.   *)
(* Encoding is deterministic, so equal records are equal strings.          *)

SECRET_KEY == "settings.secret_key"
ALGORITHM == "HS256"

\* Python None where a token string is expected (users.refresh_token is nullable)
NullToken == [alg |-> "-", key |-> "-", sub |-> "-", scope |-> "-", iat |-> 0, exp |-> 0]
\* a string that is not a JWT at all
Malformed == [alg |-> "?", key |-> "?", sub |-> "?", scope |-> "?", iat |-> 0, exp |-> 0]
\* a claim set without a "scope" key
NoScope == "<absent>"

jwt_encode(claims, key, algorithm) ==
    [alg |-> algorithm, key |-> key, sub |-> claims.sub, scope |-> claims.scope,
     iat |-> claims.iat, exp |-> claims.exp]

\* Faulty variant: the algorithm of the token's header is used
jwt_decode_header_alg(token, key, algorithms, t) ==
    IF token = Malformed \/ token = NullToken
    THEN [ok |-> FALSE, error |-> "Malformed", sub |-> "-", scope |-> "-"]
    ELSE IF token.key # key
    THEN [ok |-> FALSE, error |-> "BadSignature", sub |-> "-", scope |-> "-"]
    ELSE IF token.exp < t
    THEN [ok |-> FALSE, error |-> "Expired", sub |-> "-", scope |-> "-"]
    ELSE [ok |-> TRUE, error |-> "-", sub |-> token.sub, scope |-> token.scope]

\* Faulty variant: the exp claim is not validated
jwt_decode_no_expiry(token, key, algorithms, t) ==
    IF token = Malformed \/ token = NullToken
    THEN [ok |-> FALSE, error |-> "Malformed", sub |-> "-", scope |-> "-"]
    ELSE IF token.alg \notin algorithms
    THEN [ok |-> FALSE, error |-> "InvalidAlgorithm", sub |-> "-", scope |-> "-"]
    ELSE IF token.key # key
    THEN [ok |-> FALSE, error |-> "BadSignature", sub |-> "-", scope |-> "-"]
    ELSE [ok |-> TRUE, error |-> "-", sub |-> token.sub, scope |-> token.scope]

\* jwt.decode(token, key, algorithms=[...]) at time t: the payload, or a JWTError
jwt_decode(token, key, algorithms, t) ==
    IF token = Malformed \/ token = NullToken
    THEN [ok |-> FALSE, error |-> "Malformed", sub |-> "-", scope |-> "-"]
    ELSE IF token.alg \notin algorithms
    THEN [ok |-> FALSE, error |-> "InvalidAlgorithm", sub |-> "-", scope |-> "-"]
    ELSE IF token.key # key
    THEN [ok |-> FALSE, error |-> "BadSignature", sub |-> "-", scope |-> "-"]
    ELSE IF token.exp < t
    THEN [ok |-> FALSE, error |-> "Expired", sub |-> "-", scope |-> "-"]
    ELSE [ok |-> TRUE, error |-> "-", sub |-> token.sub, scope |-> token.scope]

---------------------------------------------------------------------------
(* Token issuer: Auth.create_access_token, create_refresh_token,           *)
(* create_email_token.  expires_delta = 0 stands for the omitted argument  *)
(* (None): both are falsy in "if expires_delta:".                          *)

create_access_token(sub, expires_delta, t) ==
    LET expire == IF expires_delta # 0 THEN t + expires_delta
                  ELSE t + AccessMinutes * SecondsPerMinute
    IN jwt_encode([sub |-> sub, iat |-> t, exp |-> expire, scope |-> "access_token"],
                  SECRET_KEY, ALGORITHM)

create_refresh_token(sub, expires_delta, t) ==
    LET expire == IF expires_delta # 0 THEN t + expires_delta
                  ELSE t + RefreshDays * SecondsPerDay
    IN jwt_encode([sub |-> sub, iat |-> t, exp |-> expire, scope |-> "refresh_token"],
                  SECRET_KEY, ALGORITHM)

create_email_token(sub, days, t) ==
    jwt_encode([sub |-> sub, iat |-> t, exp |-> t + days * SecondsPerDay, scope |-> NoScope],
               SECRET_KEY, ALGORITHM)

---------------------------------------------------------------------------
(* Credential verifier: passlib CryptContext(schemes=["bcrypt"]).  A hash  *)
(* is determined by the password and the salt drawn when hashing.          *)

\* bcrypt reads the first 72 bytes of the password and ignores the rest
bcrypt_truncate(password) ==
    IF password \in LongPasswords THEN "<72 bytes>" ELSE password

get_password_hash(password, salt) == [plain |-> bcrypt_truncate(password), salt |-> salt]

verify_password(plain_password, hashed_password) ==
    hashed_password.plain = bcrypt_truncate(plain_password)

---------------------------------------------------------------------------
(* Persistent user store: src/repository/users.py over models.User        *)

NoHash == [plain |-> "-", salt |-> 0]
\* Python None where a User is expected
NoUser == [id |-> 0, email |-> "-", password |-> NoHash, confirmed |-> FALSE,
           refresh_token |-> NullToken, avatar |-> "None"]

\* The row found, as loaded into the session (None = NoUser)
get_user_by_email(email, db) ==
    LET found == {i \in DOMAIN db : Lower(db[i].email) = Lower(email)}
    IN IF found = {} THEN NoUser
       ELSE db[CHOOSE i \in found : \A j \in found : i <= j]

\* Gravatar(email).get_image(): a URL computed from the address
Gravatar(email) == "gravatar"

create_user(body, db) ==
    Append(db, [id |-> Len(db) + 1, email |-> body.email, password |-> body.password,
                confirmed |-> FALSE, refresh_token |-> NullToken,
                avatar |-> Gravatar(body.email)])

\* Faulty variant: a None token is skipped instead of stored
update_token_skip_none(user, token, db) ==
    IF token = NullToken THEN db ELSE [db EXCEPT ![user.id].refresh_token = token]

\* user.refresh_token = token; db.commit()
\* (the ORM writes the one changed column of the row with the user's id)
update_token(user, token, db) ==
    [db EXCEPT ![user.id].refresh_token = token]

update_avatar(email, url, db) ==
    LET user == get_user_by_email(email, db)
    IN [db EXCEPT ![user.id].avatar = url]

repository_confirmed_email(email, db) ==
    LET user == get_user_by_email(email, db)
    IN [db EXCEPT ![user.id].confirmed = TRUE]

\* Faulty variant: the name "email" is bound to the user's address, so the
\* body runs: confirmed is set, then the password
repository_reset_password_new_runs(user, password, db) ==
    [raised |-> "-",
     db |-> [db EXCEPT ![user.id].confirmed = TRUE, ![user.id].password = password]]

\* The body reads the undefined name "email" before it touches the user:
\* Python raises NameError and nothing is written.
repository_reset_password_new(user, password, db) ==
    [raised |-> "NameError", db |-> db]

---------------------------------------------------------------------------
(* Contacts store: src/repository/contacts.py over models.Contact.  The     *)
(* table is its rows in insertion order and the next value of its id        *)
(* sequence.                                                                *)

\* Python None where a Contact is expected
NoContact == [id |-> 0, user_id |-> 0, name |-> "-", lastname |-> "-", email |-> "-",
              phone |-> "-", birthday |-> Date(0, 0, 0), note |-> "-"]

\* The positions of the rows with this id owned by this user
OwnedAt(contact_id, user, table) ==
    {i \in DOMAIN table.rows : /\ table.rows[i].user_id = user.id
                               /\ table.rows[i].id = contact_id}

get_contacts(user, table) ==
    SelectSeq(table.rows, LAMBDA c : c.user_id = user.id)

get_contact_id(contact_id, user, table) ==
    LET found == OwnedAt(contact_id, user, table)
    IN IF found = {} THEN NoContact ELSE table.rows[CHOOSE i \in found : TRUE]

\* Lines 110-119: the shift applied when today + 7 days is in the next year
date_shift(t) == IF t.year < AddDays(t, 7).year THEN 14 ELSE 0

\* Faulty variant: the window includes today + 7
birthday_in_week_closed(birthday, t) ==
    LET shift == date_shift(t)
        from == AddDays(t, 0 - shift)
        today_over_week == AddDays(AddDays(t, 7), 0 - shift)
        shifted == AddDays(birthday, 0 - shift)
        bday == IF ReplaceYearFails(shifted, from.year)
                THEN ReplaceYear(AddDays(shifted, 1), from.year)
                ELSE ReplaceYear(shifted, from.year)
    IN IF shifted = OutOfRange THEN "OverflowError"
       ELSE IF DateLE(from, bday) /\ DateLE(bday, today_over_week) THEN "in"
       ELSE "out"

\* Faulty variant: the ValueError of replace(year=...) is not caught
birthday_in_week_no_rollover(birthday, t) ==
    LET shift == date_shift(t)
        from == AddDays(t, 0 - shift)
        today_over_week == AddDays(AddDays(t, 7), 0 - shift)
        shifted == AddDays(birthday, 0 - shift)
        bday == ReplaceYear(shifted, from.year)
    IN IF shifted = OutOfRange THEN "OverflowError"
       ELSE IF ReplaceYearFails(shifted, from.year) THEN "ValueError"
       ELSE IF DateLE(from, bday) /\ DateLess(bday, today_over_week) THEN "in"
       ELSE "out"

\* Lines 123-133, the body of the loop for one contact: "in" when the contact
\* is appended, "out" when it is not, or the exception that leaves the loop.
\* contact.birthday - date_shift is before date.min for a birthday in the
\* first days of year 1: OverflowError, which the try does not cover.
birthday_in_week(birthday, t) ==
    LET shift == date_shift(t)
        from == AddDays(t, 0 - shift)
        today_over_week == AddDays(AddDays(t, 7), 0 - shift)
        shifted == AddDays(birthday, 0 - shift)
        bday == IF ReplaceYearFails(shifted, from.year)
                THEN ReplaceYear(AddDays(shifted, 1), from.year)
                ELSE ReplaceYear(shifted, from.year)
    IN IF shifted = OutOfRange THEN "OverflowError"
       ELSE IF DateLE(from, bday) /\ DateLess(bday, today_over_week) THEN "in"
       ELSE "out"

\* Faulty variant: the year-normalized birthday is stored on the contact
get_contact_birthdays_along_week_stores(user, table, t) ==
    LET mine == get_contacts(user, table)
        raised == {birthday_in_week(mine[i].birthday, t) : i \in DOMAIN mine}
                      \ {"in", "out"}
    IN IF raised # {}
       THEN [raised |-> CHOOSE e \in raised : TRUE, result |-> << >>, table |-> table]
       ELSE [raised |-> "-",
             result |-> SelectSeq(mine, LAMBDA c : birthday_in_week(c.birthday, t) = "in"),
             table |-> [table EXCEPT !.rows =
                           [i \in DOMAIN table.rows |->
                               IF table.rows[i].user_id = user.id
                               THEN [table.rows[i] EXCEPT !.birthday =
                                        ReplaceYear(@, t.year)]
                               ELSE table.rows[i]]]]

\* The exception raised, if any, the list returned and the table afterwards
get_contact_birthdays_along_week(user, table, t) ==
    LET mine == get_contacts(user, table)
        raised == {birthday_in_week(mine[i].birthday, t) : i \in DOMAIN mine}
                      \ {"in", "out"}
    IN IF raised # {}
       THEN [raised |-> CHOOSE e \in raised : TRUE, result |-> << >>, table |-> table]
       ELSE [raised |-> "-",
             result |-> SelectSeq(mine, LAMBDA c : birthday_in_week(c.birthday, t) = "in"),
             table |-> table]

\* INSERT violates contacts_email_key or fullname_uc
Duplicates(body, rows, except) ==
    \E i \in DOMAIN rows :
        /\ i \notin except
        /\ \/ rows[i].email = body.email
           \/ (rows[i].name = body.name /\ rows[i].lastname = body.lastname)

\* Faulty variant: uniqueness is enforced among the owner's contacts only
create_contact_per_user(body, user, table) ==
    LET contact == [id |-> table.next_id, user_id |-> user.id, name |-> body.name,
                    lastname |-> body.lastname, email |-> body.email,
                    phone |-> body.phone, birthday |-> body.birthday,
                    note |-> body.note]
    IN IF Duplicates(body, get_contacts(user, table), {})
       THEN [raised |-> "IntegrityError", result |-> NoContact,
             table |-> [table EXCEPT !.next_id = @ + 1]]
       ELSE [raised |-> "-", result |-> contact,
             table |-> [rows |-> Append(table.rows, contact),
                        next_id |-> table.next_id + 1]]

\* The sequence value is consumed even when the INSERT fails
create_contact(body, user, table) ==
    LET contact == [id |-> table.next_id, user_id |-> user.id, name |-> body.name,
                    lastname |-> body.lastname, email |-> body.email,
                    phone |-> body.phone, birthday |-> body.birthday,
                    note |-> body.note]
    IN IF Duplicates(body, table.rows, {})
       THEN [raised |-> "IntegrityError", result |-> NoContact,
             table |-> [table EXCEPT !.next_id = @ + 1]]
       ELSE [raised |-> "-", result |-> contact,
             table |-> [rows |-> Append(table.rows, contact),
                        next_id |-> table.next_id + 1]]

\* Faulty variant: the email of the body is not assigned
update_contact_keeps_email(body, contact_id, user, table) ==
    LET found == OwnedAt(contact_id, user, table)
        i == CHOOSE j \in found : TRUE
        contact == [table.rows[i] EXCEPT !.name = body.name, !.lastname = body.lastname,
                                         !.phone = body.phone,
                                         !.birthday = body.birthday, !.note = body.note]
    IN IF found = {} THEN [raised |-> "-", result |-> NoContact, table |-> table]
       ELSE IF Duplicates(contact, table.rows, found)
       THEN [raised |-> "IntegrityError", result |-> NoContact, table |-> table]
       ELSE [raised |-> "-", result |-> contact,
             table |-> [table EXCEPT !.rows[i] = contact]]

\* Faulty variant: the row is looked up by id alone
update_contact_any_owner(body, contact_id, user, table) ==
    LET found == {i \in DOMAIN table.rows : table.rows[i].id = contact_id}
        i == CHOOSE j \in found : TRUE
        contact == [table.rows[i] EXCEPT !.name = body.name, !.lastname = body.lastname,
                                         !.email = body.email, !.phone = body.phone,
                                         !.birthday = body.birthday, !.note = body.note]
    IN IF found = {} THEN [raised |-> "-", result |-> NoContact, table |-> table]
       ELSE IF Duplicates(body, table.rows, found)
       THEN [raised |-> "IntegrityError", result |-> NoContact, table |-> table]
       ELSE [raised |-> "-", result |-> contact,
             table |-> [table EXCEPT !.rows[i] = contact]]

update_contact(body, contact_id, user, table) ==
    LET found == OwnedAt(contact_id, user, table)
        i == CHOOSE j \in found : TRUE
        contact == [table.rows[i] EXCEPT !.name = body.name, !.lastname = body.lastname,
                                         !.email = body.email, !.phone = body.phone,
                                         !.birthday = body.birthday, !.note = body.note]
    IN IF found = {} THEN [raised |-> "-", result |-> NoContact, table |-> table]
       ELSE IF Duplicates(body, table.rows, found)
       THEN [raised |-> "IntegrityError", result |-> NoContact, table |-> table]
       ELSE [raised |-> "-", result |-> contact,
             table |-> [table EXCEPT !.rows[i] = contact]]

delete_contact(contact_id, user, table) ==
    LET found == OwnedAt(contact_id, user, table)
        i == CHOOSE j \in found : TRUE
    IN IF found = {} THEN [raised |-> "-", result |-> NoContact, table |-> table]
       ELSE [raised |-> "-", result |-> table.rows[i],
             table |-> [table EXCEPT !.rows =
                           SubSeq(table.rows, 1, i - 1)
                               \o SubSeq(table.rows, i + 1, Len(table.rows))]]

---------------------------------------------------------------------------
(* Session cache: the redis.asyncio client Auth.rds                        *)

NoExpiry == -1

\* pickle.dumps / pickle.loads of a loaded User: the column values, wrapped
pickle_dumps(user) == [pickled |-> user]
pickle_loads(blob) == blob.pickled

\* a key that does not exist
Absent == [present |-> FALSE, value |-> pickle_dumps(NoUser), expireAt |-> NoExpiry]

Live(entry, t) == entry.present /\ (entry.expireAt = NoExpiry \/ t < entry.expireAt)

\* GET key: the stored bytes, or None (a key past its expiry is gone)
rds_get(c, key, t) == IF Live(c[key], t) THEN c[key] ELSE Absent

\* SET key value: stores the value and discards any expiry the key had
rds_set(c, key, value) ==
    [c EXCEPT ![key] = [present |-> TRUE, value |-> value, expireAt |-> NoExpiry]]

\* EXPIRE key seconds: no effect on a missing key
rds_expire(c, key, seconds, t) ==
    IF Live(c[key], t) THEN [c EXCEPT ![key].expireAt = t + seconds] ELSE c

\* Redis drops the keys whose expiry has passed
Evict(c, t) == [k \in DOMAIN c |-> IF Live(c[k], t) THEN c[k] ELSE Absent]

---------------------------------------------------------------------------
(* Responses *)

Resp(op, email, password, token, status, detail) ==
    [op |-> op, email |-> email, password |-> password, token |-> token,
     status |-> status, detail |-> detail,
     access_token |-> NullToken, refresh_token |-> NullToken,
     user |-> NoUser, readStore |-> FALSE, cacheError |-> FALSE]

NoResp == Resp("-", "-", "-", NullToken, 0, "-")

---------------------------------------------------------------------------
(* Route handlers of src/routes/auth.py, each as a function of the request, *)
(* the store and the clock: the store it leaves, the response, the          *)
(* background tasks it adds and the tokens it encodes.                      *)

Out(db, resp, newTasks, newTokens) ==
    [db |-> db, resp |-> resp, tasks |-> newTasks, tokens |-> newTokens]

\* Faulty variant: the existing account is looked up by the exact address
signup_exact_match(body, salt, db) ==
    LET exists == \E i \in DOMAIN db : db[i].email = body.email
        hashed == get_password_hash(body.password, salt)
        db2 == create_user([email |-> body.email, password |-> hashed], db)
        new_user == db2[Len(db2)]
    IN IF exists
       THEN Out(db, Resp("signup", body.email, body.password, NullToken,
                         409, "Account already exists"), << >>, {})
       ELSE Out(db2, [Resp("signup", body.email, body.password, NullToken,
                           201, "User successfully created")
                      EXCEPT !.user = new_user],
                <<[kind |-> "verification", email |-> new_user.email]>>, {})

signup(body, salt, db) ==
    LET exist_user == get_user_by_email(body.email, db)
        hashed == get_password_hash(body.password, salt)
        db2 == create_user([email |-> body.email, password |-> hashed], db)
        new_user == db2[Len(db2)]
    IN IF exist_user # NoUser
       THEN Out(db, Resp("signup", body.email, body.password, NullToken,
                         409, "Account already exists"), << >>, {})
       ELSE Out(db2, [Resp("signup", body.email, body.password, NullToken,
                           201, "User successfully created")
                      EXCEPT !.user = new_user],
                <<[kind |-> "verification", email |-> new_user.email]>>, {})

\* Faulty variant: the confirmed flag is not read
login_unconfirmed(body, db, t) ==
    LET user == get_user_by_email(body.username, db)
        access_token == create_access_token(user.email, 0, t)
        refresh_token == create_refresh_token(user.email, 0, t)
        R(status, detail) == Resp("login", body.username, body.password, NullToken,
                                  status, detail)
    IN IF user = NoUser THEN Out(db, R(401, "Invalid email"), << >>, {})
       ELSE IF ~verify_password(body.password, user.password)
       THEN Out(db, R(401, "Invalid password"), << >>, {})
       ELSE Out(update_token(user, refresh_token, db),
                [R(200, "bearer") EXCEPT !.access_token = access_token,
                                         !.refresh_token = refresh_token],
                << >>, {access_token, refresh_token})

\* Faulty variant: the password is verified before the confirmed flag is read
login_password_first(body, db, t) ==
    LET user == get_user_by_email(body.username, db)
        access_token == create_access_token(user.email, 0, t)
        refresh_token == create_refresh_token(user.email, 0, t)
        R(status, detail) == Resp("login", body.username, body.password, NullToken,
                                  status, detail)
    IN IF user = NoUser THEN Out(db, R(401, "Invalid email"), << >>, {})
       ELSE IF ~verify_password(body.password, user.password)
       THEN Out(db, R(401, "Invalid password"), << >>, {})
       ELSE IF ~user.confirmed THEN Out(db, R(401, "Email not confirmed"), << >>, {})
       ELSE Out(update_token(user, refresh_token, db),
                [R(200, "bearer") EXCEPT !.access_token = access_token,
                                         !.refresh_token = refresh_token],
                << >>, {access_token, refresh_token})

login(body, db, t) ==
    LET user == get_user_by_email(body.username, db)
        access_token == create_access_token(user.email, 0, t)
        refresh_token == create_refresh_token(user.email, 0, t)
        R(status, detail) == Resp("login", body.username, body.password, NullToken,
                                  status, detail)
    IN IF user = NoUser THEN Out(db, R(401, "Invalid email"), << >>, {})
       ELSE IF ~user.confirmed THEN Out(db, R(401, "Email not confirmed"), << >>, {})
       ELSE IF ~verify_password(body.password, user.password)
       THEN Out(db, R(401, "Invalid password"), << >>, {})
       ELSE Out(update_token(user, refresh_token, db),
                [R(200, "bearer") EXCEPT !.access_token = access_token,
                                         !.refresh_token = refresh_token],
                << >>, {access_token, refresh_token})

\* Faulty variant: the confirmed flag is not read
reset_password_any_user(body, db) ==
    LET exist_user == get_user_by_email(body.email, db)
        R(status, detail) == Resp("reset_password", body.email, "-", NullToken,
                                  status, detail)
    IN IF exist_user = NoUser THEN Out(db, R(409, "Account is absent"), << >>, {})
       ELSE Out(db, R(205, "User is successfully informed how to reset password."),
                <<[kind |-> "reset_password", email |-> exist_user.email]>>, {})

reset_password(body, db) ==
    LET exist_user == get_user_by_email(body.email, db)
        R(status, detail) == Resp("reset_password", body.email, "-", NullToken,
                                  status, detail)
    IN IF exist_user = NoUser THEN Out(db, R(409, "Account is absent"), << >>, {})
       ELSE IF ~exist_user.confirmed THEN Out(db, R(401, "Email not confirmed"), << >>, {})
       ELSE Out(db, R(205, "User is successfully informed how to reset password."),
                <<[kind |-> "reset_password", email |-> exist_user.email]>>, {})

\* Faulty variant: a token that carries a scope is refused
get_email_from_token_scoped(token, t) ==
    LET payload == jwt_decode(token, SECRET_KEY, {ALGORITHM}, t)
    IN IF payload.ok /\ payload.scope = NoScope
       THEN [status |-> 200, detail |-> "-", email |-> payload.sub]
       ELSE [status |-> 422, detail |-> "Invalid token for email verification",
             email |-> "-"]

\* Faulty variant: the detail names the cause of the decode failure
get_email_from_token_cause(token, t) ==
    LET payload == jwt_decode(token, SECRET_KEY, {ALGORITHM}, t)
    IN IF payload.ok
       THEN [status |-> 200, detail |-> "-", email |-> payload.sub]
       ELSE [status |-> 422, detail |-> payload.error, email |-> "-"]

\* Auth.get_email_from_token
get_email_from_token(token, t) ==
    LET payload == jwt_decode(token, SECRET_KEY, {ALGORITHM}, t)
    IN IF payload.ok
       THEN [status |-> 200, detail |-> "-", email |-> payload.sub]
       ELSE [status |-> 422, detail |-> "Invalid token for email verification",
             email |-> "-"]

reset_password_new(token, password, salt, db, t) ==
    LET dec == get_email_from_token(token, t)
        user == get_user_by_email(dec.email, db)
        hashed == get_password_hash(password, salt)
        done == repository_reset_password_new(user, hashed, db)
        R(status, detail) == Resp("reset_password_new", dec.email, password, token,
                                  status, detail)
    IN IF dec.status # 200 THEN Out(db, R(dec.status, dec.detail), << >>, {})
       ELSE IF user = NoUser THEN Out(db, R(406, "Invalid email"), << >>, {})
       ELSE IF done.raised # "-" THEN Out(done.db, R(500, done.raised), << >>, {})
       ELSE Out(done.db, R(200, "User password is successfully changed."), << >>, {})

\* Faulty variant: only a token with the lifetime of a confirmation token is
\* accepted
confirmed_email_purpose_bound(token, db, t) ==
    LET dec == get_email_from_token(token, t)
        user == get_user_by_email(dec.email, db)
        R(status, detail) == Resp("confirmed_email", dec.email, "-", token, status, detail)
    IN IF dec.status # 200 THEN Out(db, R(dec.status, dec.detail), << >>, {})
       ELSE IF token.exp - token.iat # EmailTokenDays * SecondsPerDay
       THEN Out(db, R(422, "Invalid token for email verification"), << >>, {})
       ELSE IF user = NoUser THEN Out(db, R(400, "Verification error"), << >>, {})
       ELSE IF user.confirmed
       THEN Out(db, R(200, "Your email is already confirmed"), << >>, {})
       ELSE Out(repository_confirmed_email(dec.email, db), R(200, "Email confirmed"),
                << >>, {})

\* Faulty variant: the confirmed flag is not read before it is written
confirmed_email_rewrite(token, db, t) ==
    LET dec == get_email_from_token(token, t)
        user == get_user_by_email(dec.email, db)
        R(status, detail) == Resp("confirmed_email", dec.email, "-", token, status, detail)
    IN IF dec.status # 200 THEN Out(db, R(dec.status, dec.detail), << >>, {})
       ELSE IF user = NoUser THEN Out(db, R(400, "Verification error"), << >>, {})
       ELSE Out(repository_confirmed_email(dec.email, db), R(200, "Email confirmed"),
                << >>, {})

confirmed_email(token, db, t) ==
    LET dec == get_email_from_token(token, t)
        user == get_user_by_email(dec.email, db)
        R(status, detail) == Resp("confirmed_email", dec.email, "-", token, status, detail)
    IN IF dec.status # 200 THEN Out(db, R(dec.status, dec.detail), << >>, {})
       ELSE IF user = NoUser THEN Out(db, R(400, "Verification error"), << >>, {})
       ELSE IF user.confirmed
       THEN Out(db, R(200, "Your email is already confirmed"), << >>, {})
       ELSE Out(repository_confirmed_email(dec.email, db), R(200, "Email confirmed"),
                << >>, {})

\* user.confirmed is read before "if user": for an unknown address it is an
\* attribute access on None (AttributeError, an unhandled 500).
request_email(body, db) ==
    LET user == get_user_by_email(body.email, db)
        R(status, detail) == Resp("request_email", body.email, "-", NullToken,
                                  status, detail)
    IN IF user = NoUser THEN Out(db, R(500, "AttributeError"), << >>, {})
       ELSE IF user.confirmed
       THEN Out(db, R(200, "Your email is already confirmed"), << >>, {})
       ELSE Out(db, R(200, "Check your email for confirmation."),
                <<[kind |-> "verification", email |-> user.email]>>, {})

---------------------------------------------------------------------------
(* Refresh: routes/auth.py refresh_token over Auth.decode_refresh_token    *)

\* Faulty variant: the scope claim is not compared
decode_refresh_token_any_scope(token, t) ==
    LET payload == jwt_decode(token, SECRET_KEY, {ALGORITHM}, t)
    IN IF ~payload.ok
       THEN [status |-> 401, detail |-> "Could not validate credentials", email |-> "-"]
       ELSE IF payload.scope = NoScope
       THEN [status |-> 500, detail |-> "KeyError", email |-> "-"]
       ELSE [status |-> 200, detail |-> "-", email |-> payload.sub]

\* payload['scope'] of a claim set without that key raises KeyError, which
\* "except JWTError" does not catch: an unhandled 500.
decode_refresh_token(token, t) ==
    LET payload == jwt_decode(token, SECRET_KEY, {ALGORITHM}, t)
    IN IF ~payload.ok
       THEN [status |-> 401, detail |-> "Could not validate credentials", email |-> "-"]
       ELSE IF payload.scope = NoScope
       THEN [status |-> 500, detail |-> "KeyError", email |-> "-"]
       ELSE IF payload.scope = "refresh_token"
       THEN [status |-> 200, detail |-> "-", email |-> payload.sub]
       ELSE [status |-> 401, detail |-> "Invalid scope for token", email |-> "-"]

\* Faulty variant: the user is taken from the session cache when it holds one
refresh_token_load_cached(token, db, t) ==
    LET dec == decode_refresh_token(token, t)
        hit == rds_get(cache, dec.email, t)
        user == IF hit.present THEN pickle_loads(hit.value)
                ELSE get_user_by_email(dec.email, db)
    IN IF dec.status # 200
       THEN [status |-> dec.status, detail |-> dec.detail, email |-> "-", user |-> NoUser]
       ELSE IF user = NoUser
       THEN [status |-> 500, detail |-> "AttributeError", email |-> dec.email,
             user |-> NoUser]
       ELSE [status |-> 200, detail |-> "-", email |-> dec.email, user |-> user]

\* Lines 192-194: decode the token and load the user row
refresh_token_load(token, db, t) ==
    LET dec == decode_refresh_token(token, t)
        user == get_user_by_email(dec.email, db)
    IN IF dec.status # 200
       THEN [status |-> dec.status, detail |-> dec.detail, email |-> "-", user |-> NoUser]
       ELSE IF user = NoUser
       THEN [status |-> 500, detail |-> "AttributeError", email |-> dec.email,
             user |-> NoUser]
       ELSE [status |-> 200, detail |-> "-", email |-> dec.email, user |-> user]

\* Faulty variant: the presented string is not compared with the stored one
refresh_token_commit_unchecked(token, email, user, db, t) ==
    LET access_token == create_access_token(email, 0, t)
        refresh_token == create_refresh_token(email, 0, t)
    IN Out(update_token(user, refresh_token, db),
           [Resp("refresh_token", email, "-", token, 200, "bearer")
            EXCEPT !.user = user, !.access_token = access_token,
                   !.refresh_token = refresh_token],
           << >>, {access_token, refresh_token})

\* Faulty variant: the new refresh token lives 7 days beyond the expiry of
\* the presented one
refresh_token_commit_extends(token, email, user, db, t) ==
    LET access_token == create_access_token(email, 0, t)
        refresh_token == create_refresh_token(email,
                             (token.exp - t) + RefreshDays * SecondsPerDay, t)
        R(status, detail) == [Resp("refresh_token", email, "-", token, status, detail)
                              EXCEPT !.user = user]
    IN IF user.refresh_token # token
       THEN Out(update_token(user, NullToken, db), R(401, "Invalid refresh token"),
                << >>, {})
       ELSE Out(update_token(user, refresh_token, db),
                [R(200, "bearer") EXCEPT !.access_token = access_token,
                                         !.refresh_token = refresh_token],
                << >>, {access_token, refresh_token})

\* Lines 195-204: compare the presented string with the loaded row's token,
\* then clear or rotate the stored token
refresh_token_commit(token, email, user, db, t) ==
    LET access_token == create_access_token(email, 0, t)
        refresh_token == create_refresh_token(email, 0, t)
        R(status, detail) == [Resp("refresh_token", email, "-", token, status, detail)
                              EXCEPT !.user = user]
    IN IF user.refresh_token # token
       THEN Out(update_token(user, NullToken, db), R(401, "Invalid refresh token"),
                << >>, {})
       ELSE Out(update_token(user, refresh_token, db),
                [R(200, "bearer") EXCEPT !.access_token = access_token,
                                         !.refresh_token = refresh_token],
                << >>, {access_token, refresh_token})

\* The whole handler
refresh_token(token, db, t) ==
    LET l == refresh_token_load(token, db, t)
    IN IF l.status # 200
       THEN Out(db, Resp("refresh_token", l.email, "-", token, l.status, l.detail),
                << >>, {})
       ELSE refresh_token_commit(token, l.email, l.user, db, t)

---------------------------------------------------------------------------
(* Authenticated-request identity resolution: Auth.get_current_user        *)

\* Lines 137-152: the token's subject, or the rejection
decode_access_token(token, t) ==
    LET payload == jwt_decode(token, SECRET_KEY, {ALGORITHM}, t)
    IN IF ~payload.ok
       THEN [status |-> 401, detail |-> "Could not validate credentials", email |-> "-"]
       ELSE IF payload.scope = NoScope
       THEN [status |-> 500, detail |-> "KeyError", email |-> "-"]
       ELSE IF payload.scope = "access_token"
       THEN [status |-> 200, detail |-> "-", email |-> payload.sub]
       ELSE [status |-> 401, detail |-> "Could not validate credentials", email |-> "-"]

\* Faulty variant: SET NX, the first writer's snapshot stays
cache_set_user_if_absent(c, email, user) ==
    IF c[email].present THEN c ELSE rds_set(c, email, pickle_dumps(user))

\* Line 158: rds.set(f"user:{email}", pickle.dumps(user))
cache_set_user(c, email, user) == rds_set(c, email, pickle_dumps(user))

\* Line 159: rds.expire(f"user:{email}", 900)
cache_expire_user(c, email, t) == rds_expire(c, email, CacheTTL, t)

\* Faulty variant: a hit renews the expiry of the entry
get_current_user_sliding(token, db, c, t) ==
    LET dec == decode_access_token(token, t)
        hit == rds_get(c, dec.email, t)
        user == get_user_by_email(dec.email, db)
        R(status, detail) == Resp("get_current_user", dec.email, "-", token,
                                  status, detail)
    IN IF dec.status # 200
       THEN [cache |-> c, resp |-> R(dec.status, dec.detail)]
       ELSE IF hit.present
       THEN [cache |-> cache_expire_user(c, dec.email, t),
             resp |-> [R(200, "hit") EXCEPT !.user = pickle_loads(hit.value)]]
       ELSE IF user = NoUser
       THEN [cache |-> c,
             resp |-> [R(401, "Could not validate credentials")
                       EXCEPT !.readStore = TRUE]]
       ELSE [cache |-> cache_expire_user(cache_set_user(c, dec.email, user),
                                         dec.email, t),
             resp |-> [R(200, "miss") EXCEPT !.user = user, !.readStore = TRUE]]

\* Faulty variant: the cache is written but never consulted
get_current_user_uncached(token, db, c, t) ==
    LET dec == decode_access_token(token, t)
        user == get_user_by_email(dec.email, db)
        R(status, detail) == Resp("get_current_user", dec.email, "-", token,
                                  status, detail)
    IN IF dec.status # 200
       THEN [cache |-> c, resp |-> R(dec.status, dec.detail)]
       ELSE IF user = NoUser
       THEN [cache |-> c,
             resp |-> [R(401, "Could not validate credentials")
                       EXCEPT !.readStore = TRUE]]
       ELSE [cache |-> cache_expire_user(cache_set_user(c, dec.email, user),
                                         dec.email, t),
             resp |-> [R(200, "miss") EXCEPT !.user = user, !.readStore = TRUE]]

\* The whole dependency, with the cache answering every call
get_current_user(token, db, c, t) ==
    LET dec == decode_access_token(token, t)
        hit == rds_get(c, dec.email, t)
        user == get_user_by_email(dec.email, db)
        R(status, detail) == Resp("get_current_user", dec.email, "-", token,
                                  status, detail)
    IN IF dec.status # 200
       THEN [cache |-> c, resp |-> R(dec.status, dec.detail)]
       ELSE IF hit.present
       THEN [cache |-> c,
             resp |-> [R(200, "hit") EXCEPT !.user = pickle_loads(hit.value)]]
       ELSE IF user = NoUser
       THEN [cache |-> c,
             resp |-> [R(401, "Could not validate credentials")
                       EXCEPT !.readStore = TRUE]]
       ELSE [cache |-> cache_expire_user(cache_set_user(c, dec.email, user),
                                         dec.email, t),
             resp |-> [R(200, "miss") EXCEPT !.user = user, !.readStore = TRUE]]

---------------------------------------------------------------------------
(* The service, one request at a time *)

Idle == [pc |-> "idle", op |-> "-", token |-> NullToken, email |-> "-",
         user |-> NoUser, resp |-> NoResp]

\* The contacts table before any contact is created
NoContacts == [rows |-> << >>, next_id |-> 1]

\* The day on which second 0 of the clock falls
StartDate == Date(2023, 6, 10)

\* What a request finds when it arrives
Snapshot == [users |-> users, cache |-> cache, issued |-> issued, tasks |-> tasks,
             contacts |-> contacts]

Init ==
    /\ users = << >>
    /\ cache = [e \in Emails |-> Absent]
    /\ now = 0
    /\ ticks = 0
    /\ issued = {}
    /\ tasks = << >>
    /\ last = NoResp
    /\ pre = [users |-> << >>, cache |-> [e \in Emails |-> Absent], issued |-> {},
              tasks |-> << >>, contacts |-> NoContacts]
    /\ req = [r \in 1..MaxReqs |-> Idle]
    /\ contacts = NoContacts
    /\ today = StartDate

\* A well-formed token signed with a key that is not the service's
Forged == [alg |-> ALGORITHM, key |-> "not the secret key", sub |-> "ann@x.org",
           scope |-> "access_token", iat |-> 0, exp |-> 2 * RefreshDays * SecondsPerDay]

\* A token signed with the service's key whose header declares another
\* algorithm, carrying the claims the operation asks for
OtherAlgorithm(scope) ==
    [alg |-> "HS512", key |-> SECRET_KEY, sub |-> "ann@x.org",
     scope |-> scope, iat |-> 0, exp |-> 2 * RefreshDays * SecondsPerDay]

\* What a client can present as a token: a string the service issued, junk, a
\* forgery, or a token under another algorithm
Presentable == issued \cup {Malformed, Forged, OtherAlgorithm("access_token")}

\* The effect of a handler that does not touch the cache
Apply(out) ==
    /\ Len(tasks) + Len(out.tasks) <= MaxTasks
    /\ Cardinality(issued \cup out.tokens) <= MaxTokens
    /\ users' = out.db
    /\ last' = out.resp
    /\ pre' = Snapshot
    /\ tasks' = tasks \o out.tasks
    /\ issued' = issued \cup out.tokens
    /\ UNCHANGED <<contacts, today, cache, now, ticks, req>>

Signup ==
    \E email \in Emails, password \in Passwords, salt \in Salts :
        Apply(signup([email |-> email, password |-> password], salt, users))

Login ==
    \E username \in Emails, password \in FormPasswords :
        Apply(login([username |-> username, password |-> password], users, now))

ResetPassword ==
    \E email \in Emails : Apply(reset_password([email |-> email], users))

ResetPasswordNew ==
    \E token \in Presentable, password \in Passwords, salt \in Salts :
        Apply(reset_password_new(token, password, salt, users, now))

Refresh ==
    \E token \in Presentable : Apply(refresh_token(token, users, now))

ConfirmedEmail ==
    \E token \in Presentable : Apply(confirmed_email(token, users, now))

RequestEmail ==
    \E email \in Emails : Apply(request_email([email |-> email], users))

GetCurrentUser ==
    \E token \in Presentable :
        LET out == get_current_user(token, users, cache, now)
        IN /\ cache' = out.cache
           /\ last' = out.resp
           /\ pre' = Snapshot
           /\ UNCHANGED <<contacts, today, users, now, ticks, issued, tasks, req>>

\* services/email.py send_email_verification / send_email_reset_password, run
\* as a background task: the action token is encoded when the task runs
send_email(task, t) ==
    create_email_token(task.email,
                       IF task.kind = "reset_password" THEN ResetTokenDays
                       ELSE EmailTokenDays, t)

SendEmail ==
    /\ tasks # << >>
    /\ Cardinality(issued \cup {send_email(Head(tasks), now)}) <= MaxTokens
    /\ issued' = issued \cup {send_email(Head(tasks), now)}
    /\ tasks' = Tail(tasks)
    /\ last' = [NoResp EXCEPT !.op = "send_email", !.email = Head(tasks).email,
                              !.token = send_email(Head(tasks), now)]
    /\ pre' = Snapshot
    /\ UNCHANGED <<contacts, today, users, cache, now, ticks, req>>

Tick ==
    \E d \in TickSteps :
        /\ ticks < MaxTicks
        /\ now' = now + d
        /\ today' = AddDays(today, ((now + d) \div SecondsPerDay) - (now \div SecondsPerDay))
        /\ ticks' = ticks + 1
        /\ cache' = Evict(cache, now + d)
        /\ last' = [NoResp EXCEPT !.op = "tick"]
        /\ pre' = Snapshot
        /\ UNCHANGED <<contacts, users, issued, tasks, req>>

\* The session workflows: an account is created and confirmed, then logs in,
\* refreshes and resolves its identity, one request at a time.  (The
\* password-reset and request_email handlers write neither a user row nor the
\* cache, so they reach no other store or cache contents than these.)
Next ==
    \/ Signup
    \/ SendEmail
    \/ ConfirmedEmail
    \/ Login
    \/ Refresh
    \/ GetCurrentUser
    \/ Tick

Spec == Init /\ [][Next]_vars

\* The account workflows: signup, confirmation, the two halves of a password
\* reset and the repeated confirmation email.
NextAcct ==
    \/ Signup
    \/ SendEmail
    \/ ConfirmedEmail
    \/ RequestEmail
    \/ ResetPassword
    \/ ResetPasswordNew
    \/ Tick

SpecAcct == Init /\ [][NextAcct]_vars

---------------------------------------------------------------------------
(* Requests in flight.  refresh_token reads the user row (SELECT) and       *)
(* writes it back (UPDATE, COMMIT) in two store round trips, with no lock   *)
(* and no compare-and-set; get_current_user awaits rds.get, the store,      *)
(* rds.set and rds.expire in turn.  Other requests (of this worker's event  *)
(* loop for the cache calls, of any other worker process for the store      *)
(* calls) run between two round trips.                                      *)

Reqs == 1..MaxReqs

\* A confirmed user who has just logged in, at second 0
ConcUser == [id |-> 1, email |-> "ann@x.org", password |-> get_password_hash("pw1", 1),
             confirmed |-> TRUE,
             refresh_token |-> create_refresh_token("ann@x.org", 0, 0),
             avatar |-> Gravatar("ann@x.org")]

InitConc ==
    /\ users = <<ConcUser>>
    /\ cache = [e \in Emails |-> Absent]
    /\ now = 0
    /\ ticks = 0
    /\ issued = {create_email_token("ann@x.org", EmailTokenDays, 0),
                 create_access_token("ann@x.org", 0, 0),
                 create_refresh_token("ann@x.org", 0, 0)}
    /\ tasks = << >>
    /\ last = NoResp
    /\ pre = [users |-> << >>, cache |-> [e \in Emails |-> Absent], issued |-> {},
              tasks |-> << >>, contacts |-> NoContacts]
    /\ req = [r \in Reqs |-> Idle]
    /\ contacts = NoContacts
    /\ today = StartDate

Done(resp) == [Idle EXCEPT !.pc = "done", !.op = resp.op, !.token = resp.token,
                           !.email = resp.email, !.resp = resp]

\* routes/auth.py 192-194
RefreshBegin(r) ==
    \E token \in Presentable :
        LET l == refresh_token_load(token, users, now)
        IN /\ req[r].pc = "idle"
           /\ req' = [req EXCEPT ![r] =
                  IF l.status # 200
                  THEN Done(Resp("refresh_token", l.email, "-", token, l.status, l.detail))
                  ELSE [Idle EXCEPT !.pc = "loaded", !.op = "refresh_token",
                                    !.token = token, !.email = l.email,
                                    !.user = l.user]]
           /\ UNCHANGED <<contacts, today, users, cache, now, ticks, issued, tasks, last, pre>>

\* routes/auth.py 195-204
RefreshEnd(r) ==
    LET out == refresh_token_commit(req[r].token, req[r].email, req[r].user, users, now)
    IN /\ req[r].pc = "loaded"
       /\ req[r].op = "refresh_token"
       /\ Cardinality(issued \cup out.tokens) <= MaxTokens
       /\ users' = out.db
       /\ issued' = issued \cup out.tokens
       /\ req' = [req EXCEPT ![r] = Done(out.resp)]
       /\ UNCHANGED <<contacts, today, cache, now, ticks, tasks, last, pre>>

\* services/auth.py 137-153: decode, then rds.get
GcuBegin(r) ==
    \E token \in Presentable :
        LET dec == decode_access_token(token, now)
            hit == rds_get(cache, dec.email, now)
            R(status, detail) == Resp("get_current_user", dec.email, "-", token,
                                      status, detail)
        IN /\ req[r].pc = "idle"
           /\ req' = [req EXCEPT ![r] =
                  IF dec.status # 200 THEN Done(R(dec.status, dec.detail))
                  ELSE IF hit.present
                  THEN Done([R(200, "hit") EXCEPT !.user = pickle_loads(hit.value)])
                  ELSE [Idle EXCEPT !.pc = "miss", !.op = "get_current_user",
                                    !.token = token, !.email = dec.email]]
           /\ UNCHANGED <<contacts, today, users, cache, now, ticks, issued, tasks, last, pre>>

\* services/auth.py 155-157: the store lookup after a miss
GcuLoad(r) ==
    LET user == get_user_by_email(req[r].email, users)
        R(status, detail) == [Resp("get_current_user", req[r].email, "-", req[r].token,
                                   status, detail) EXCEPT !.readStore = TRUE]
    IN /\ req[r].pc = "miss"
       /\ req' = [req EXCEPT ![r] =
              IF user = NoUser THEN Done(R(401, "Could not validate credentials"))
              ELSE [@ EXCEPT !.pc = "loaded", !.user = user]]
       /\ UNCHANGED <<contacts, today, users, cache, now, ticks, issued, tasks, last, pre>>

\* services/auth.py 158
GcuSet(r) ==
    /\ req[r].pc = "loaded"
    /\ req[r].op = "get_current_user"
    /\ cache' = cache_set_user(cache, req[r].email, req[r].user)
    /\ req' = [req EXCEPT ![r].pc = "set"]
    /\ UNCHANGED <<contacts, today, users, now, ticks, issued, tasks, last, pre>>

\* services/auth.py 159, 162
GcuExpire(r) ==
    /\ req[r].pc = "set"
    /\ cache' = cache_expire_user(cache, req[r].email, now)
    /\ req' = [req EXCEPT ![r] =
           Done([Resp("get_current_user", req[r].email, "-", req[r].token, 200, "miss")
                 EXCEPT !.user = req[r].user, !.readStore = TRUE])]
    /\ UNCHANGED <<contacts, today, users, now, ticks, issued, tasks, last, pre>>

\* The request ends between rds.set and rds.expire: the expire call raises
\* (connection lost, timeout) or the handler's task is cancelled.
GcuFail(r) ==
    /\ req[r].pc = "set"
    /\ req' = [req EXCEPT ![r] =
           Done(Resp("get_current_user", req[r].email, "-", req[r].token, 500,
                     "rds.expire failed"))]
    /\ UNCHANGED <<contacts, today, users, cache, now, ticks, issued, tasks, last, pre>>

\* The cache is unreachable when rds.get is awaited (line 153): the client
\* raises redis.exceptions.ConnectionError, which nothing catches, and the
\* request ends as an unhandled 500 without the store being asked.
GcuGetFail(r) ==
    \E token \in Presentable :
        LET dec == decode_access_token(token, now)
        IN /\ req[r].pc = "idle"
           /\ dec.status = 200
           /\ req' = [req EXCEPT ![r] =
                  Done([Resp("get_current_user", dec.email, "-", token, 500,
                             "redis.exceptions.ConnectionError")
                        EXCEPT !.cacheError = TRUE])]
           /\ UNCHANGED <<contacts, today, users, cache, now, ticks, issued, tasks, last, pre>>

\* The cache becomes unreachable after the miss: rds.set (line 158) raises and
\* the user row already loaded is not returned.
GcuSetFail(r) ==
    /\ req[r].pc = "loaded"
    /\ req[r].op = "get_current_user"
    /\ req' = [req EXCEPT ![r] =
           Done([Resp("get_current_user", req[r].email, "-", req[r].token, 500,
                      "redis.exceptions.ConnectionError")
                 EXCEPT !.readStore = TRUE, !.cacheError = TRUE])]
    /\ UNCHANGED <<contacts, today, users, cache, now, ticks, issued, tasks, last, pre>>

\* The response is delivered and the slot is free again
Finish(r) ==
    /\ req[r].pc = "done"
    /\ req' = [req EXCEPT ![r] = Idle]
    /\ UNCHANGED <<contacts, today, users, cache, now, ticks, issued, tasks, last, pre>>

TickConc ==
    \E d \in TickSteps :
        /\ ticks < MaxTicks
        /\ now' = now + d
        /\ today' = AddDays(today, ((now + d) \div SecondsPerDay) - (now \div SecondsPerDay))
        /\ ticks' = ticks + 1
        /\ cache' = Evict(cache, now + d)
        /\ UNCHANGED <<contacts, users, issued, tasks, last, pre, req>>

NextConc ==
    \/ \E r \in Reqs : RefreshBegin(r)
    \/ \E r \in Reqs : RefreshEnd(r)
    \/ \E r \in Reqs : GcuBegin(r)
    \/ \E r \in Reqs : GcuLoad(r)
    \/ \E r \in Reqs : GcuSet(r)
    \/ \E r \in Reqs : GcuExpire(r)
    \/ \E r \in Reqs : GcuFail(r)
    \/ \E r \in Reqs : GcuGetFail(r)
    \/ \E r \in Reqs : GcuSetFail(r)
    \/ \E r \in Reqs : Finish(r)
    \/ TickConc

SpecConc == InitConc /\ [][NextConc]_vars

---------------------------------------------------------------------------
(* Concurrent signups.  signup looks the address up (SELECT ... WHERE       *)
(* lower(email) = lower(:email)) and inserts the row in a later round trip; *)
(* the only constraint the table has is UNIQUE(email), which PostgreSQL     *)
(* compares exactly.  Another request (of any worker) runs in between.      *)

\* routes/auth.py 48-51: the lookup that guards the insert
signup_check(body, db) ==
    IF get_user_by_email(body.email, db) # NoUser
    THEN Resp("signup", body.email, body.password, NullToken, 409, "Account already exists")
    ELSE Resp("signup", body.email, body.password, NullToken, 0, "-")

\* routes/auth.py 52-58 over create_user: INSERT and COMMIT.  A row with the
\* very same email violates users_email_key: IntegrityError, an unhandled 500.
signup_insert(body, salt, db) ==
    LET hashed == get_password_hash(body.password, salt)
        db2 == create_user([email |-> body.email, password |-> hashed], db)
        new_user == db2[Len(db2)]
    IN IF \E i \in DOMAIN db : db[i].email = body.email
       THEN Out(db, Resp("signup", body.email, body.password, NullToken,
                         500, "IntegrityError"), << >>, {})
       ELSE Out(db2, [Resp("signup", body.email, body.password, NullToken,
                           201, "User successfully created")
                      EXCEPT !.user = new_user],
                <<[kind |-> "verification", email |-> new_user.email]>>, {})

SignupBegin(r) ==
    \E email \in Emails, password \in Passwords :
        LET checked == signup_check([email |-> email, password |-> password], users)
        IN /\ req[r].pc = "idle"
           /\ req' = [req EXCEPT ![r] =
                  IF checked.status # 0 THEN Done(checked)
                  ELSE [Idle EXCEPT !.pc = "checked", !.op = "signup",
                                    !.email = email, !.resp = checked]]
           /\ UNCHANGED <<contacts, today, users, cache, now, ticks, issued, tasks, last, pre>>

SignupEnd(r) ==
    \E salt \in Salts :
        LET out == signup_insert([email |-> req[r].resp.email,
                                  password |-> req[r].resp.password], salt, users)
        IN /\ req[r].pc = "checked"
           /\ Len(tasks) + Len(out.tasks) <= MaxTasks
           /\ users' = out.db
           /\ tasks' = tasks \o out.tasks
           /\ req' = [req EXCEPT ![r] = Done(out.resp)]
           /\ UNCHANGED <<contacts, today, cache, now, ticks, issued, last, pre>>

\* The rows a lookup by address can return: .first() of a query without
\* ORDER BY returns whichever matching row the scan meets first.
Matching(email, db) == {i \in DOMAIN db : Lower(db[i].email) = Lower(email)}

\* confirmed_email when the route's lookup returns row i and the repository's
\* lookup returns row j (with one matching row this is confirmed_email)
confirmed_email_rows(token, i, j, db, t) ==
    LET dec == get_email_from_token(token, t)
        R(status, detail) == Resp("confirmed_email", dec.email, "-", token, status, detail)
    IN IF dec.status # 200 THEN Out(db, R(dec.status, dec.detail), << >>, {})
       ELSE IF Matching(dec.email, db) = {}
       THEN Out(db, R(400, "Verification error"), << >>, {})
       ELSE IF db[i].confirmed
       THEN Out(db, R(200, "Your email is already confirmed"), << >>, {})
       ELSE Out([db EXCEPT ![j].confirmed = TRUE], R(200, "Email confirmed"), << >>, {})

ConfirmedEmailRows ==
    \E token \in Presentable :
        LET found == Matching(get_email_from_token(token, now).email, users)
            rows == IF found = {} THEN {0} ELSE found
        IN \E i \in rows, j \in rows :
               Apply(confirmed_email_rows(token, i, j, users, now))

NextSignup ==
    \/ \E r \in Reqs : SignupBegin(r)
    \/ \E r \in Reqs : SignupEnd(r)
    \/ \E r \in Reqs : Finish(r)
    \/ SendEmail
    \/ ConfirmedEmailRows

SpecSignup == Init /\ [][NextSignup]_vars

---------------------------------------------------------------------------
(* The four operations that take a token, applied to every token a client  *)
(* can hold once a confirmed user has logged in, while the clock runs past  *)
(* the tokens' expiry.                                                      *)

NextTokens ==
    \/ GetCurrentUser
    \/ Refresh
    \/ ConfirmedEmail
    \/ ResetPasswordNew
    \/ Tick

SpecTokens == InitConc /\ [][NextTokens]_vars

---------------------------------------------------------------------------
(* Contacts of two users.  The routes of src/routes/contacts.py pass the    *)
(* user that get_current_user resolved to the repository; only its id is    *)
(* read.                                                                    *)

MaxContacts == 2

\* A second confirmed user
OtherUser == [id |-> 2, email |-> "bob@x.org", password |-> get_password_hash("pw2", 1),
              confirmed |-> TRUE, refresh_token |-> NullToken,
              avatar |-> Gravatar("bob@x.org")]

InitAt(dates) ==
    /\ users = <<ConcUser, OtherUser>>
    /\ cache = [e \in Emails |-> Absent]
    /\ now = 0
    /\ ticks = 0
    /\ issued = {create_access_token("ann@x.org", 0, 0),
                 create_refresh_token("ann@x.org", 0, 0)}
    /\ tasks = << >>
    /\ last = NoResp
    /\ pre = [users |-> << >>, cache |-> [e \in Emails |-> Absent], issued |-> {},
              tasks |-> << >>, contacts |-> NoContacts]
    /\ req = [r \in Reqs |-> Idle]
    /\ contacts = NoContacts
    /\ today \in dates

\* The response of a contacts route: IntegrityError is answered 400, a missing
\* contact 404, any other exception is an unhandled 500
ContactResp(op, user, contact_id, body, out) ==
    [op |-> op, user_id |-> user.id, contact_id |-> contact_id, body |-> body,
     raised |-> out.raised, result |-> out.result,
     status |-> IF out.raised = "IntegrityError" THEN 400
                ELSE IF out.raised # "-" THEN 500
                ELSE IF out.result = NoContact THEN 404
                ELSE 200,
     detail |-> IF out.raised = "IntegrityError" THEN "ALREADY EXISTS"
                ELSE IF out.raised # "-" THEN out.raised
                ELSE IF out.result = NoContact THEN "NOT FOUND"
                ELSE "-"]

NoBody == [name |-> "-", lastname |-> "-", email |-> "-", phone |-> "-",
           birthday |-> Date(0, 0, 0), note |-> "-"]

ApplyContacts(op, user, contact_id, body, out) ==
    /\ contacts' = out.table
    /\ last' = ContactResp(op, user, contact_id, body, out)
    /\ pre' = Snapshot
    /\ UNCHANGED <<users, cache, now, ticks, issued, tasks, req, today>>

CreateContactFrom(bodies) ==
    \E i \in DOMAIN users, body \in bodies :
        /\ contacts.next_id <= MaxContacts
        /\ ApplyContacts("create_contact", users[i], 0, body,
                         create_contact(body, users[i], contacts))

ReadBirthdays ==
    \E i \in DOMAIN users :
        LET out == get_contact_birthdays_along_week(users[i], contacts, today)
        IN /\ contacts' = out.table
           /\ last' = [op |-> "birthdays_along_week", user_id |-> users[i].id,
                        contact_id |-> 0, body |-> NoBody, raised |-> out.raised,
                        result |-> out.result,
                        status |-> IF out.raised = "-" THEN 200 ELSE 500,
                        detail |-> out.raised]
           /\ pre' = Snapshot
           /\ UNCHANGED <<users, cache, now, ticks, issued, tasks, req, today>>

\* Reference dates: around the end of February in a common and in a leap
\* year, a day in mid-year, and the last days of a year
RefDates ==
    {Date(2023, 2, 22), Date(2023, 2, 23), Date(2023, 6, 10), Date(2024, 2, 23),
     Date(2024, 12, 30)}
        \cup {Date(2023, 12, d) : d \in 24..31}

\* Birthdays: days before, at the start of, at the end of and after the
\* windows; February 29; a day that the shift moves to February 29; the
\* first days of year 1
Birthdays ==
    {Date(1996, 6, 9), Date(2004, 6, 10), Date(1992, 6, 16), Date(1996, 6, 17)}
        \cup {Date(2001, 2, 22), Date(2001, 2, 28), Date(2000, 2, 29), Date(2001, 3, 1),
              Date(2001, 3, 2), Date(2000, 3, 14)}
        \cup {Date(1999, 12, d) : d \in {24, 25, 29, 30, 31}}
        \cup {Date(2000, 1, d) : d \in {1, 4, 5, 6, 7}}
        \cup {Date(1, 1, 5)}

ContactNames == <<"Al", "Bo">>
ContactEmails == <<"al@c.org", "bo@c.org">>

\* The body of the k-th contact created, with one of the birthdays
BirthdayBodies(k) ==
    {[name |-> ContactNames[((k - 1) % 2) + 1], lastname |-> "Doe",
      email |-> ContactEmails[((k - 1) % 2) + 1], phone |-> "555 01 00",
      birthday |-> b, note |-> "-"] : b \in Birthdays}

CreateBirthdayContact == CreateContactFrom(BirthdayBodies(contacts.next_id))

NextBirthdays ==
    \/ CreateBirthdayContact
    \/ ReadBirthdays

SpecBirthdays == InitAt(RefDates) /\ [][NextBirthdays]_vars

---------------------------------------------------------------------------
(* Every operation on a user's account and session, in any order, within    *)
(* one clock second.                                                        *)

NextAccount ==
    \/ Signup
    \/ SendEmail
    \/ ConfirmedEmail
    \/ RequestEmail
    \/ Login
    \/ Refresh
    \/ ResetPassword
    \/ ResetPasswordNew

SpecAccount == Init /\ [][NextAccount]_vars

---------------------------------------------------------------------------
(* Contacts read, changed and deleted by id, by either user *)

\* Bodies a client sends: two names and two addresses, so that a body can
\* clash with a stored contact on email or on full name
ContactBodies ==
    {[name |-> ContactNames[n], lastname |-> "Doe", email |-> ContactEmails[e],
      phone |-> "555 01 00", birthday |-> Date(2000, 3, 14), note |-> "-"] :
        n \in {1, 2}, e \in {1, 2}}

\* Ids a client asks for: those the sequence has handed out and the next one
ContactIds == 1..contacts.next_id

CreateContact == CreateContactFrom(ContactBodies)

\* routes/contacts.py 40-62
ReadContactId ==
    \E i \in DOMAIN users, contact_id \in ContactIds :
        ApplyContacts("get_contact_id", users[i], contact_id, NoBody,
                      [raised |-> "-",
                       result |-> get_contact_id(contact_id, users[i], contacts),
                       table |-> contacts])

\* routes/contacts.py 197-227
UpdateContact ==
    \E i \in DOMAIN users, contact_id \in ContactIds, body \in ContactBodies :
        ApplyContacts("update_contact", users[i], contact_id, body,
                      update_contact(body, contact_id, users[i], contacts))

\* routes/contacts.py 230-257
DeleteContact ==
    \E i \in DOMAIN users, contact_id \in ContactIds :
        ApplyContacts("delete_contact", users[i], contact_id, NoBody,
                      delete_contact(contact_id, users[i], contacts))

NextContacts ==
    \/ CreateContact
    \/ ReadContactId
    \/ UpdateContact
    \/ DeleteContact

SpecContacts == InitAt({StartDate}) /\ [][NextContacts]_vars

---------------------------------------------------------------------------
(* The token issuer called directly, with and without the expires_delta     *)
(* argument.                                                                *)

\* Values of expires_delta a caller supplies, in seconds
Overrides == {0, 60}

Issue(op, sub, supplied, expires_delta, kind, token) ==
    /\ Cardinality(issued \cup {token}) <= MaxTokens
    /\ issued' = issued \cup {token}
    /\ last' = [op |-> op, sub |-> sub, supplied |-> supplied,
                 expires_delta |-> expires_delta, kind |-> kind, token |-> token]
    /\ pre' = Snapshot
    /\ UNCHANGED <<contacts, today, users, cache, now, ticks, tasks, req>>

\* create_access_token(data) or create_access_token(data, expires_delta): the
\* omitted argument is None, which "if expires_delta:" treats as it treats 0
IssueAccess ==
    \E sub \in Emails, supplied \in BOOLEAN, expires_delta \in Overrides :
        /\ supplied \/ expires_delta = 0
        /\ Issue("create_access_token", sub, supplied, expires_delta, "-",
                 create_access_token(sub, expires_delta, now))

IssueRefresh ==
    \E sub \in Emails, supplied \in BOOLEAN, expires_delta \in Overrides :
        /\ supplied \/ expires_delta = 0
        /\ Issue("create_refresh_token", sub, supplied, expires_delta, "-",
                 create_refresh_token(sub, expires_delta, now))

IssueAction ==
    \E sub \in Emails, kind \in {"verification", "reset_password"} :
        Issue("create_email_token", sub, FALSE, 0, kind,
              send_email([kind |-> kind, email |-> sub], now))

NextIssuer ==
    \/ IssueAccess
    \/ IssueRefresh
    \/ IssueAction

SpecIssuer == Init /\ [][NextIssuer]_vars

---------------------------------------------------------------------------
(* Properties.  last is the request just handled and its response, pre is  *)
(* what it found, the unprimed variables are what it left.                 *)

\* The refresh token stored for the user an address names (NullToken: none)
StoredToken(email, db) == get_user_by_email(email, db).refresh_token

\* A token the service signed, still unexpired at t, of the given scope
Unexpired(token, scope, t) ==
    /\ token \in issued
    /\ token.scope = scope
    /\ token.exp >= t

RefreshDone == last.op = "refresh_token"
LoginDone == last.op = "login"
GcuDone == last.op = "get_current_user"

\* The request left the store, the cache, the issued tokens and the task queue
\* as it found them
NothingChanged ==
    /\ users = pre.users
    /\ cache = pre.cache
    /\ issued = pre.issued
    /\ tasks = pre.tasks

\* C1: once a refresh presenting the refresh token r has succeeded, the pair it
\* returned is new and a further refresh presenting r is rejected with
\* 401 "Invalid refresh token", whatever the timing of the requests.
C1_OldRefreshTokenRejected ==
    (RefreshDone /\ last.status = 200) =>
        LET again == refresh_token(last.token, users, now).resp
        IN /\ last.refresh_token # last.token
           /\ again.status = 401
           /\ again.detail = "Invalid refresh token"

\* C2: (a) a refresh succeeds only if the presented string equals the refresh
\* token stored when it arrives; (b) after a successful login or refresh the
\* stored token is the one just returned; (c) no issued refresh token other
\* than the stored one is accepted.
C2_SingleActiveRefreshToken ==
    /\ (RefreshDone /\ last.status = 200) =>
           last.token = StoredToken(last.email, pre.users)
    /\ ((RefreshDone \/ LoginDone) /\ last.status = 200) =>
           StoredToken(last.email, users) = last.refresh_token
    /\ \A token \in issued :
           refresh_token(token, users, now).resp.status = 200 =>
               token = StoredToken(token.sub, users)

\* C2's case: a refresh has succeeded while an older, unexpired refresh token
\* of the same user is still in a client's hands
C2_Witness ==
    /\ RefreshDone /\ last.status = 200
    /\ \E old \in issued : /\ Unexpired(old, "refresh_token", now)
                           /\ old.sub = last.email
                           /\ old # last.refresh_token

\* C3: a valid refresh token that differs from the stored one (null included)
\* clears the stored token and is rejected with 401 "Invalid refresh token";
\* while the stored token is null every refresh of that user is rejected, and
\* only a successful login makes it non-null again.
C3_MismatchClearsAndRejects ==
    /\ (/\ RefreshDone
        /\ Unexpired(last.token, "refresh_token", now)
        /\ last.token # StoredToken(last.token.sub, pre.users))
       => /\ last.status = 401
          /\ last.detail = "Invalid refresh token"
          /\ StoredToken(last.token.sub, users) = NullToken
    /\ \A token \in Presentable :
           (token.sub \in Emails /\ StoredToken(token.sub, users) = NullToken) =>
               refresh_token(token, users, now).resp.status # 200
    /\ \A i \in DOMAIN pre.users :
           (pre.users[i].refresh_token = NullToken /\ users[i].refresh_token # NullToken)
               => (LoginDone /\ last.status = 200)

\* C3's case: the most recently issued refresh token is presented after the
\* stored token was cleared, and is rejected
C3_Witness ==
    /\ RefreshDone
    /\ last.detail = "Invalid refresh token"
    /\ StoredToken(last.token.sub, pre.users) = NullToken
    /\ Unexpired(last.token, "refresh_token", now)
    /\ \A other \in issued : other.iat <= last.token.iat

\* C4: the compare-and-rotate of a refresh is atomic per user: a refresh
\* request that succeeds presents the token that is stored at the moment it
\* writes the new one, so of two concurrent requests presenting the same
\* stored token only one succeeds.
C4_AtomicCompareAndRotate ==
    [][\A r \in Reqs :
          (/\ req[r].op = "refresh_token"
           /\ req[r].pc = "loaded"
           /\ req'[r].pc = "done"
           /\ req'[r].resp.status = 200)
          => StoredToken(req[r].email, users) = req[r].token]_vars

\* C5: get_current_user accepts an unexpired access token of an existing user
\* and rejects a refresh-scoped token; refresh rejects an access-scoped token;
\* a scope rejection is a 401 and changes nothing.
C5_ScopeSeparation ==
    /\ (/\ GcuDone
        /\ Unexpired(last.token, "access_token", now)
        /\ get_user_by_email(last.token.sub, pre.users) # NoUser)
       => /\ last.status = 200
          /\ Lower(last.user.email) = Lower(last.token.sub)
    /\ (GcuDone /\ last.token.scope = "refresh_token")
       => (last.status = 401 /\ NothingChanged)
    /\ (RefreshDone /\ last.token.scope = "access_token")
       => (last.status = 401 /\ NothingChanged)

\* C5's case: an unexpired access token was presented to refresh while the
\* user had a stored refresh token
C5_Witness ==
    /\ RefreshDone
    /\ Unexpired(last.token, "access_token", now)
    /\ StoredToken(last.token.sub, pre.users) # NullToken
    /\ \E token \in issued : Unexpired(token, "refresh_token", now)

\* C6: login answers 401 "Invalid email" for an unknown address, 401 "Email
\* not confirmed" for an unconfirmed user whatever the password, 401 "Invalid
\* password" for a confirmed user with a wrong password; a rejected login
\* returns no token and changes nothing.
C6_LoginRejections ==
    LoginDone =>
        LET user == get_user_by_email(last.email, pre.users)
        IN /\ user = NoUser
              => (last.status = 401 /\ last.detail = "Invalid email")
           /\ (user # NoUser /\ ~user.confirmed)
              => (last.status = 401 /\ last.detail = "Email not confirmed")
           /\ (user # NoUser /\ user.confirmed /\ user.password.plain # last.password)
              => (last.status = 401 /\ last.detail = "Invalid password")
           /\ last.status # 200
              => /\ NothingChanged
                 /\ last.access_token = NullToken
                 /\ last.refresh_token = NullToken

\* C6's case: an unconfirmed user logged in with a wrong password
C6_Witness ==
    /\ LoginDone
    /\ last.detail = "Email not confirmed"
    /\ get_user_by_email(last.email, users).password.plain # last.password

\* A store without the user, a cache without any key
EmptyCache == [e \in Emails |-> Absent]

\* C7: with a valid access token, a cache hit returns the cached record and
\* reads no store row; a miss loads the row, caches it with a 900-second expiry
\* and returns it; with no such row the answer is 401 "Could not validate
\* credentials" and the cache is not written.
C7_GetCurrentUser ==
    /\ (GcuDone /\ Unexpired(last.token, "access_token", now)) =>
           LET email == last.token.sub
               hit == pre.cache[email]
               user == get_user_by_email(email, pre.users)
               isHit == hit.present /\ (hit.expireAt = NoExpiry \/ now < hit.expireAt)
           IN /\ users = pre.users
              /\ isHit => /\ last.status = 200
                          /\ [pickled |-> last.user] = hit.value
                          /\ ~last.readStore
                          /\ cache = pre.cache
              /\ (~isHit /\ user # NoUser)
                 => /\ last.status = 200
                    /\ last.user = user
                    /\ last.readStore
                    /\ cache = [pre.cache EXCEPT ![email] =
                                   [present |-> TRUE, value |-> [pickled |-> user],
                                    expireAt |-> now + CacheTTL]]
              /\ (~isHit /\ user = NoUser)
                 => /\ last.status = 401
                    /\ last.detail = "Could not validate credentials"
                    /\ cache = pre.cache
    /\ \A token \in issued :
           Unexpired(token, "access_token", now) =>
               LET out == get_current_user(token, << >>, EmptyCache, now)
               IN /\ out.resp.status = 401
                  /\ out.resp.detail = "Could not validate credentials"
                  /\ out.cache = EmptyCache

\* C7's case: a hit returned a cached record that the store no longer holds
C7_Witness ==
    /\ GcuDone
    /\ last.status = 200
    /\ ~last.readStore
    /\ last.user # get_user_by_email(last.email, users)

\* C8: an operation that changes a user's confirmed flag, refresh token or
\* avatar removes the user's cache entry, so get_current_user never returns a
\* record that differs from the store in one of those fields.
C8_NoStaleSnapshot ==
    /\ (last.op \in {"login", "refresh_token", "confirmed_email"} /\ users # pre.users)
       => \A k \in DOMAIN cache :
              Lower(k) = Lower(last.email) => ~cache[k].present
    /\ (GcuDone /\ last.status = 200) =>
           LET row == get_user_by_email(last.email, users)
           IN /\ last.user.confirmed = row.confirmed
              /\ last.user.refresh_token = row.refresh_token
              /\ last.user.avatar = row.avatar

\* C9: every cache entry carries an expiry of at most 900 seconds, in every
\* state, between rds.set and rds.expire included.
C9_EveryEntryExpires ==
    \A k \in DOMAIN cache :
        cache[k].present =>
            (cache[k].expireAt # NoExpiry /\ cache[k].expireAt <= now + CacheTTL)

\* C10: a refresh presenting a valid refresh token succeeds exactly when the
\* token equals the refresh token the store holds, whatever the session cache
\* holds for that user.
C10_RefreshComparesWithStore ==
    (RefreshDone /\ Unexpired(last.token, "refresh_token", now)) =>
        (last.status = 200 <=> last.token = StoredToken(last.token.sub, pre.users))

\* C10's case: a refresh succeeded with the stored token while the cache held
\* a record of the user with another refresh token
C10_Witness ==
    /\ RefreshDone
    /\ last.status = 200
    /\ \E k \in DOMAIN cache :
           /\ Live(cache[k], now)
           /\ pickle_loads(cache[k].value).email = last.email
           /\ pickle_loads(cache[k].value).refresh_token # NullToken
           /\ pickle_loads(cache[k].value).refresh_token # last.token

\* C11: when the session cache is unavailable (rds.get or rds.set fails),
\* get_current_user with a valid access token of an existing user answers from
\* the persistent store: the request succeeds and returns the user.
C11_CacheFailureFallsBack ==
    \A r \in Reqs :
        (/\ req[r].pc = "done"
         /\ req[r].op = "get_current_user"
         /\ req[r].resp.cacheError
         /\ get_user_by_email(req[r].email, users) # NoUser)
        => /\ req[r].resp.status = 200
           /\ req[r].resp.user.id = get_user_by_email(req[r].email, users).id

\* The token decodes at t: well formed, signed by the service, not expired
Decodes(token, t) == jwt_decode(token, SECRET_KEY, {ALGORITHM}, t).ok

ResetNewDone == last.op = "reset_password_new"
ConfirmDone == last.op = "confirmed_email"
SignupDone == last.op = "signup"
ResetDone == last.op = "reset_password"

\* C12: password-reset completion with a valid token of an existing user
\* stores the hash of the submitted password, so that a login with the new
\* password passes the password check and one with the old password does not;
\* with no such user it answers 406 "Invalid email" and changes nothing.
C12_ResetCompletion ==
    (ResetNewDone /\ Decodes(last.token, now)) =>
        LET old == get_user_by_email(last.token.sub, pre.users)
            row == get_user_by_email(last.token.sub, users)
            body(password) == [username |-> last.token.sub, password |-> password]
        IN /\ old = NoUser
              => (last.status = 406 /\ last.detail = "Invalid email" /\ NothingChanged)
           /\ old # NoUser
              => /\ last.status = 200
                 /\ verify_password(last.password, row.password)
                 /\ row.confirmed => login(body(last.password), users, now).resp.status = 200
                 /\ old.password.plain # last.password
                    => login(body(old.password.plain), users, now).resp.status = 401

\* C13: email confirmation with a valid token answers 400 "Verification error"
\* when no user has the subject, "already confirmed" without any change when
\* the user is confirmed, and otherwise sets confirmed and nothing else;
\* redeeming the token again leaves the store as it is.
C13_ConfirmationIdempotent ==
    /\ (ConfirmDone /\ Decodes(last.token, now)) =>
        LET old == get_user_by_email(last.token.sub, pre.users)
        IN /\ old = NoUser
              => (last.status = 400 /\ last.detail = "Verification error"
                  /\ NothingChanged)
           /\ (old # NoUser /\ old.confirmed)
              => (last.status = 200 /\ last.detail = "Your email is already confirmed"
                  /\ NothingChanged)
           /\ (old # NoUser /\ ~old.confirmed)
              => /\ last.status = 200
                 /\ users = [pre.users EXCEPT ![old.id].confirmed = TRUE]
                 /\ cache = pre.cache /\ issued = pre.issued /\ tasks = pre.tasks
           /\ confirmed_email(last.token, users, now).db = users
    /\ \A token \in issued :
           Decodes(token, now) =>
               LET out == confirmed_email(token, << >>, now)
               IN /\ out.resp.status = 400
                  /\ out.resp.detail = "Verification error"
                  /\ out.db = << >>

\* C13's case: the confirmation token of a confirmed user is redeemed again
C13_Witness ==
    /\ ConfirmDone
    /\ last.token \in issued
    /\ last.token.scope = NoScope
    /\ last.detail = "Your email is already confirmed"
    /\ get_user_by_email(last.token.sub, users).confirmed

\* C14: signup answers 409 when a user with the same address, compared without
\* regard to case, exists, and then changes nothing and queues no email;
\* otherwise it appends one user, unconfirmed, without refresh token, whose
\* stored password is a hash of the submitted one, and queues one
\* confirmation email.
C14_Signup ==
    SignupDone =>
        LET exists == \E i \in DOMAIN pre.users :
                          Lower(pre.users[i].email) = Lower(last.email)
            new == users[Len(users)]
        IN /\ exists => (last.status = 409 /\ NothingChanged)
           /\ ~exists
              => /\ last.status = 201
                 /\ Len(users) = Len(pre.users) + 1
                 /\ SubSeq(users, 1, Len(pre.users)) = pre.users
                 /\ new.email = last.email
                 /\ ~new.confirmed
                 /\ new.refresh_token = NullToken
                 /\ \E salt \in Salts : new.password = get_password_hash(last.password, salt)
                 /\ verify_password(last.password, new.password)
                 /\ tasks = Append(pre.tasks, [kind |-> "verification", email |-> last.email])
                 /\ cache = pre.cache /\ issued = pre.issued

\* C14's case: a signup with an address that differs from an existing user's
\* only in letter case
C14_Witness ==
    /\ SignupDone
    /\ last.status = 409
    /\ \E i \in DOMAIN users : /\ users[i].email # last.email
                                /\ Lower(users[i].email) = Lower(last.email)

C15_UniqueNormalizedEmail ==
    \A i, j \in DOMAIN users :
        i # j => Lower(users[i].email) # Lower(users[j].email)

\* C19: once an action token has been redeemed with effect (here: it set
\* confirmed), no later request presenting the same token changes the store
\* again, whichever row the lookups return.
C19_ActionTokenSingleUse ==
    (ConfirmDone /\ last.detail = "Email confirmed") =>
        \A i, j \in Matching(last.token.sub, users) :
            confirmed_email_rows(last.token, i, j, users, now).db = users

TokenOps == {"get_current_user", "refresh_token", "confirmed_email", "reset_password_new"}

\* C17: a token the service issued, decoded after its exp, fails with the
\* expiry cause; get_current_user, refresh, email confirmation and
\* password-reset completion reject it and change nothing (an expired refresh
\* token does not clear the stored one).
C17_ExpiredTokenRejected ==
    /\ \A token \in issued :
           token.exp < now =>
               jwt_decode(token, SECRET_KEY, {ALGORITHM}, now).error = "Expired"
    /\ (last.op \in TokenOps /\ last.token \in issued /\ last.token.exp < now)
       => /\ last.status = IF last.op \in {"get_current_user", "refresh_token"}
                           THEN 401 ELSE 422
          /\ NothingChanged

\* C17's case: the stored refresh token is presented after its expiry and is
\* still stored afterwards
C17_Witness ==
    /\ RefreshDone
    /\ last.token \in issued
    /\ last.token.scope = "refresh_token"
    /\ last.token.exp < now
    /\ StoredToken(last.token.sub, users) = last.token

\* What the caller sees when the operation is given the token
Answer(op, token, db, c, t) ==
    LET resp == CASE op = "get_current_user" -> get_current_user(token, db, c, t).resp
                  [] op = "refresh_token" -> refresh_token(token, db, t).resp
                  [] op = "confirmed_email" -> confirmed_email(token, db, t).resp
                  [] OTHER -> reset_password_new(token, "pw1", 1, db, t).resp
    IN <<resp.status, resp.detail>>

\* C18: for each operation that takes a token, a malformed token, a token
\* with a bad signature and an expired token get the same status and detail.
C18_DecodeFailuresIndistinguishable ==
    (last.op \in TokenOps /\ ~Decodes(last.token, now)) =>
        \A other \in Presentable :
            ~Decodes(other, now) =>
                Answer(last.op, other, pre.users, pre.cache, now)
                    = <<last.status, last.detail>>

\* C18's case: a forged token was rejected by an operation at a time when a
\* token of the service has expired
C18_Witness ==
    /\ last.op \in {"confirmed_email", "reset_password_new"}
    /\ last.token = Forged
    /\ last.status = 422
    /\ \E token \in issued : token.exp < now

\* An action token of the confirmation flow (7 days) or of the reset flow (1 day)
ActionToken(token, days) ==
    /\ token \in issued
    /\ token.scope = NoScope
    /\ token.exp - token.iat = days * SecondsPerDay

BirthdaysDone == last.op = "birthdays_along_week"

MonthDay(d) == <<d.month, d.day>>

\* The seven calendar days today .. today + 6
WindowDays(t) == {MonthDay(AddDays(t, k)) : k \in 0..6}

\* The day on which a birthday is observed in year y: its month and day, and
\* March 1 for February 29 in a common year
Anniversary(birthday, y) ==
    IF birthday.month = 2 /\ birthday.day = 29 /\ ~IsLeap(y) THEN <<3, 1>>
    ELSE MonthDay(birthday)

\* The contacts of the calling user when the request arrived
CallerContacts == SelectSeq(pre.contacts.rows, LAMBDA c : c.user_id = last.user_id)

Returned(c) == \E j \in DOMAIN last.result : last.result[j] = c

\* C21: when today .. today + 7 lies in one calendar year, the birthday query
\* returns a contact exactly when its birthday, moved to today's year, is one
\* of the days today .. today + 6: the window is [today, today + 7).
C21_BirthdayWindowHalfOpen ==
    (BirthdaysDone /\ today.year = AddDays(today, 7).year) =>
        /\ last.raised = "-"
        /\ \A i \in DOMAIN CallerContacts :
               Returned(CallerContacts[i])
                   <=> Anniversary(CallerContacts[i].birthday, today.year)
                           \in WindowDays(today)

\* C21's case: of two contacts, the one born on today + 6 is returned and the
\* one born on today + 7 is not
C21_Witness ==
    /\ BirthdaysDone
    /\ today.year = AddDays(today, 7).year
    /\ Len(CallerContacts) = 2
    /\ Len(last.result) = 1
    /\ MonthDay(last.result[1].birthday) = MonthDay(AddDays(today, 6))
    /\ \E i \in DOMAIN CallerContacts :
           MonthDay(CallerContacts[i].birthday) = MonthDay(AddDays(today, 7))

\* C22: from December 25 to December 31 the birthday query returns exactly
\* the contacts whose birthday's month and day is one of the seven days
\* today .. today + 6 (the rest of December and the first days of January),
\* and raises no error.
C22_YearBoundaryWindow ==
    (BirthdaysDone /\ today.year < AddDays(today, 7).year) =>
        /\ last.raised = "-"
        /\ \A i \in DOMAIN CallerContacts :
               Returned(CallerContacts[i])
                   <=> MonthDay(CallerContacts[i].birthday) \in WindowDays(today)

\* C23: in a common year a contact born on February 29 does not make the
\* query raise, and is returned exactly when March 1 is one of the days
\* today .. today + 6.
C23_LeapDayRollsForward ==
    (BirthdaysDone /\ ~IsLeap(today.year)) =>
        \A i \in DOMAIN CallerContacts :
            MonthDay(CallerContacts[i].birthday) = <<2, 29>> =>
                /\ birthday_in_week(CallerContacts[i].birthday, today) \in {"in", "out"}
                /\ last.raised \notin {"ValueError"}
                /\ last.raised = "-" =>
                       (Returned(CallerContacts[i]) <=> <<3, 1>> \in WindowDays(today))

\* C23's case: on February 23 of a common year the contact born on
\* February 29 is returned
C23_Witness ==
    /\ BirthdaysDone
    /\ today = Date(2023, 2, 23)
    /\ \E j \in DOMAIN last.result : MonthDay(last.result[j].birthday) = <<2, 29>>

\* C24: the birthday query writes nothing: every contact record, and the
\* rest of the store, is as before the call, and the list it returns is the
\* calling user's contacts with some left out, in their order.
C24_BirthdaysSideEffectFree ==
    BirthdaysDone =>
        /\ contacts = pre.contacts
        /\ NothingChanged
        /\ last.raised = "-" =>
               last.result = SelectSeq(CallerContacts, LAMBDA c : Returned(c))

\* C24's case: the query returned both contacts of the caller while the year
\* of their birthdays differs from today's
C24_Witness ==
    /\ BirthdaysDone
    /\ Len(last.result) = 2
    /\ \A j \in DOMAIN last.result : last.result[j].birthday.year # today.year
    /\ last.result[1] # last.result[2]

Lifetime(token) == token.exp - token.iat

\* C26: an access token lives 15 minutes when no override is given and the
\* override, in seconds, for every override supplied, 0 included; a refresh
\* token lives 7 days by default; an action token lives 7 days for email
\* confirmation and 1 day for password reset; access tokens carry the access
\* scope, refresh tokens the refresh scope, action tokens none.
C26_TokenLifetimes ==
    /\ last.op = "create_access_token" =>
           /\ last.token.scope = "access_token"
           /\ ~last.supplied => Lifetime(last.token) = AccessMinutes * SecondsPerMinute
           /\ last.supplied => Lifetime(last.token) = last.expires_delta
    /\ last.op = "create_refresh_token" =>
           /\ last.token.scope = "refresh_token"
           /\ ~last.supplied => Lifetime(last.token) = RefreshDays * SecondsPerDay
    /\ last.op = "create_email_token" =>
           /\ last.token.scope = NoScope
           /\ Lifetime(last.token) = IF last.kind = "reset_password"
                                      THEN ResetTokenDays * SecondsPerDay
                                      ELSE EmailTokenDays * SecondsPerDay

\* A get_current_user request that missed the cache and has not answered yet
Missed(r) == req[r].op = "get_current_user" /\ req[r].pc \in {"miss", "loaded", "set"}

\* C27: get_current_user requests that missed the cache hold no lock: whatever
\* the other requests are doing, a request that missed can take its next step
\* (the store read, rds.set, rds.expire); and the cache write of a request
\* replaces whatever the key held with that request's snapshot and touches no
\* other key, so the key holds the snapshot of the last writer.
C27_MissesLastWriterWins ==
    /\ [](\A r \in Reqs :
            /\ (Missed(r) /\ req[r].pc = "miss") => ENABLED GcuLoad(r)
            /\ (Missed(r) /\ req[r].pc = "loaded") => ENABLED GcuSet(r)
            /\ (Missed(r) /\ req[r].pc = "set") => ENABLED GcuExpire(r))
    /\ [][\A r \in Reqs :
            (Missed(r) /\ req[r].pc = "loaded" /\ req'[r].pc = "set")
            => /\ cache'[req[r].email].present
               /\ pickle_loads(cache'[req[r].email].value) = req[r].user
               /\ \A k \in DOMAIN cache : k # req[r].email => cache'[k] = cache[k]]_vars

\* C27's case: two requests for the same user missed the cache, loaded
\* different snapshots (a refresh rotated the token between the two reads) and
\* both wrote; the key holds one of the two snapshots, the last written.
C27_Witness ==
    \E r1, r2 \in Reqs :
        /\ r1 # r2
        /\ Missed(r1) /\ req[r1].pc = "set"
        /\ Missed(r2) /\ req[r2].pc = "set"
        /\ req[r1].email = req[r2].email
        /\ req[r1].user # req[r2].user
        /\ pickle_loads(cache[req[r2].email].value) = req[r2].user

\* C28: the algorithm is fixed to HS256 and not taken from the token: a token
\* whose header declares another algorithm does not decode, whatever its
\* scope, signing key or expiry, and get_current_user, refresh, email
\* confirmation and password-reset completion each reject it (401 for the
\* first two, 422 for the others) and change nothing.
C28_AlgorithmFixed ==
    /\ ALGORITHM = "HS256"
    /\ \A scope \in {"access_token", "refresh_token", NoScope} :
           /\ ~Decodes(OtherAlgorithm(scope), now)
           /\ \A op \in TokenOps :
                  Answer(op, OtherAlgorithm(scope), users, cache, now)[1]
                      = IF op \in {"get_current_user", "refresh_token"} THEN 401 ELSE 422
    /\ (/\ last.op \in TokenOps
        /\ last.token \notin {Malformed, NullToken}
        /\ last.token.alg # ALGORITHM)
       => /\ last.status = IF last.op \in {"get_current_user", "refresh_token"}
                           THEN 401 ELSE 422
          /\ NothingChanged

\* C28's case: get_current_user was given an unexpired access-scoped token
\* for an existing user, signed with the service's key under HS512
C28_Witness ==
    /\ GcuDone
    /\ last.token = OtherAlgorithm("access_token")
    /\ last.token.key = SECRET_KEY
    /\ last.token.exp >= now
    /\ get_user_by_email(last.token.sub, pre.users) # NoUser
    /\ last.status = 401

\* C29: verify_password(p, get_password_hash(p)) is true and
\* verify_password(q, get_password_hash(p)) is false for every q other than p;
\* and for a confirmed user who signed up with password p, login with p
\* succeeds and login with any other password is rejected with
\* 401 "Invalid password".
C29_CredentialRoundTrip ==
    /\ \A p \in FormPasswords, q \in FormPasswords, salt \in Salts :
           verify_password(q, get_password_hash(p, salt)) <=> (q = p)
    /\ LoginDone =>
           LET user == get_user_by_email(last.email, pre.users)
           IN (user # NoUser /\ user.confirmed) =>
                  IF last.password = user.password.plain
                  THEN last.status = 200
                  ELSE last.status = 401 /\ last.detail = "Invalid password"

ByIdOps == {"get_contact_id", "update_contact", "delete_contact"}

\* The rows of the table that the user does not own
RowsOfOthers(table, user_id) == SelectSeq(table.rows, LAMBDA c : c.user_id # user_id)

\* The stored contact with this id, whoever owns it (NoContact when there is none)
RowWithId(table, contact_id) ==
    IF \E i \in DOMAIN table.rows : table.rows[i].id = contact_id
    THEN table.rows[CHOOSE i \in DOMAIN table.rows : table.rows[i].id = contact_id]
    ELSE NoContact

\* C30: get_contact_id, update_contact and delete_contact act only on the
\* contact with the given id owned by the caller: for an id that does not
\* exist or belongs to another user they return None (404) and leave every
\* contact as it was; in every case the contacts of the other users are left
\* as they were, and a contact that is returned is the caller's.
C30_OwnershipIsolation ==
    last.op \in ByIdOps =>
        LET target == RowWithId(pre.contacts, last.contact_id)
        IN /\ target.user_id # last.user_id =>
                  /\ last.result = NoContact
                  /\ last.status = 404
                  /\ contacts.rows = pre.contacts.rows
           /\ RowsOfOthers(contacts, last.user_id)
                  = RowsOfOthers(pre.contacts, last.user_id)
           /\ last.result # NoContact =>
                  /\ last.result.user_id = last.user_id
                  /\ last.result.id = last.contact_id

\* C30's case: a user asked to change or delete, by its id, a contact that
\* another user owns
C30_Witness ==
    /\ last.op \in {"update_contact", "delete_contact"}
    /\ RowWithId(pre.contacts, last.contact_id) # NoContact
    /\ RowWithId(pre.contacts, last.contact_id).user_id # last.user_id
    /\ last.status = 404

\* The six fields of a contact that a body carries
BodyOf(c) == [name |-> c.name, lastname |-> c.lastname, email |-> c.email,
              phone |-> c.phone, birthday |-> c.birthday, note |-> c.note]

\* The stored rows with this id
Stored(table, contact_id) ==
    {table.rows[i] : i \in {j \in DOMAIN table.rows : table.rows[j].id = contact_id}}

\* C31: a create_contact that returns gives a contact owned by the caller
\* whose six fields are those of the body, and that contact is the one
\* stored; an update_contact of a contact the caller owns that returns gives
\* the contact with the same id and owner and the six fields of the body, and
\* that contact is the one stored.
C31_CreateUpdateFields ==
    /\ (last.op = "create_contact" /\ last.raised = "-") =>
           /\ last.result # NoContact
           /\ last.result.user_id = last.user_id
           /\ BodyOf(last.result) = last.body
           /\ Stored(contacts, last.result.id) = {last.result}
           /\ Stored(pre.contacts, last.result.id) = {}
    /\ (/\ last.op = "update_contact"
        /\ last.raised = "-"
        /\ RowWithId(pre.contacts, last.contact_id).user_id = last.user_id)
       => /\ last.result.id = last.contact_id
          /\ last.result.user_id = last.user_id
          /\ BodyOf(last.result) = last.body
          /\ Stored(contacts, last.contact_id) = {last.result}

\* C31's case: an owned contact was given another name and another email
C31_Witness ==
    /\ last.op = "update_contact"
    /\ last.raised = "-"
    /\ RowWithId(pre.contacts, last.contact_id).user_id = last.user_id
    /\ RowWithId(pre.contacts, last.contact_id).email # last.body.email
    /\ RowWithId(pre.contacts, last.contact_id).name # last.body.name
    /\ RowWithId(contacts, last.contact_id) = last.result

\* C32: a token of the service that decodes and carries no scope claim,
\* presented to get_current_user or to refresh, is answered 401 like any
\* other unacceptable token, and nothing changes.
C32_ScopelessTokenRejected ==
    (/\ last.op \in {"get_current_user", "refresh_token"}
     /\ Decodes(last.token, now)
     /\ last.token.scope = NoScope)
    => /\ last.status = 401
       /\ NothingChanged

\* The store with every user's confirmed flag cleared
Unconfirmed(db) == [i \in DOMAIN db |-> [db[i] EXCEPT !.confirmed = FALSE]]

\* C33: get_email_from_token checks no scope: a token of the service that
\* decodes, access-scoped and refresh-scoped tokens included, yields its
\* subject, and email confirmation and password-reset completion answer it
\* and change the store exactly as they do for an action token of the same
\* subject, whether the user is confirmed or not.
C33_NoScopeCheckOnActionEndpoints ==
    /\ \A token \in issued :
           Decodes(token, now) =>
               LET action == create_email_token(token.sub, EmailTokenDays, now)
               IN /\ get_email_from_token(token, now).status = 200
                  /\ get_email_from_token(token, now).email = token.sub
                  /\ \A db \in {users, Unconfirmed(users)} :
                         /\ confirmed_email(token, db, now).db
                                = confirmed_email(action, db, now).db
                         /\ Answer("confirmed_email", token, db, cache, now)
                                = Answer("confirmed_email", action, db, cache, now)
                         /\ reset_password_new(token, "pw2", 1, db, now).db
                                = reset_password_new(action, "pw2", 1, db, now).db
                         /\ Answer("reset_password_new", token, db, cache, now)
                                = Answer("reset_password_new", action, db, cache, now)
    /\ (/\ last.op \in {"confirmed_email", "reset_password_new"}
        /\ last.token \in issued
        /\ Decodes(last.token, now)
        /\ last.token.scope \in {"access_token", "refresh_token"})
       => /\ last.status # 422
          /\ last.email = last.token.sub
          /\ <<last.status, last.detail>>
                 = Answer(last.op, create_email_token(last.token.sub, EmailTokenDays, now),
                          pre.users, pre.cache, now)

\* C33's case: email confirmation was given an unexpired access token and
\* answered as for a confirmation token
C33_Witness ==
    /\ ConfirmDone
    /\ Unexpired(last.token, "access_token", now)
    /\ last.status = 200
    /\ last.email = last.token.sub

\* C34: token strings are determined by kind, subject, iat and exp: two
\* issued tokens that agree on these are the same string, and issuing a
\* token of the kind and subject of a token issued in the current second
\* gives that string again; so a refresh that succeeds in the second in which
\* the presented refresh token was issued returns and stores the presented
\* string.
C34_SameSecondSameToken ==
    /\ \A t1 \in issued, t2 \in issued :
           (/\ t1.scope = t2.scope /\ t1.sub = t2.sub
            /\ t1.iat = t2.iat /\ t1.exp = t2.exp) => t1 = t2
    /\ \A token \in issued :
           (token.iat = now /\ Lifetime(token) = RefreshDays * SecondsPerDay
                /\ token.scope = "refresh_token")
               => create_refresh_token(token.sub, 0, now) = token
    /\ \A token \in issued :
           (token.iat = now /\ Lifetime(token) = AccessMinutes * SecondsPerMinute
                /\ token.scope = "access_token")
               => create_access_token(token.sub, 0, now) = token
    /\ (RefreshDone /\ last.status = 200 /\ last.token.iat = now)
       => /\ last.refresh_token = last.token
          /\ StoredToken(last.token.sub, users) = last.token

\* C34's case: a refresh succeeded in the second of the login that issued
\* the presented token
C34_Witness ==
    /\ RefreshDone
    /\ last.status = 200
    /\ last.token.iat = now
    /\ last.token.scope = "refresh_token"
    /\ StoredToken(last.token.sub, pre.users) = last.token

\* C35: password-reset completion, whatever its outcome, leaves the confirmed
\* flag, the stored refresh token and the avatar of every user as they were,
\* and adds or removes no user.
C35_ResetCompletionFrame ==
    ResetNewDone =>
        /\ DOMAIN users = DOMAIN pre.users
        /\ \A i \in DOMAIN users :
               /\ users[i].confirmed = pre.users[i].confirmed
               /\ users[i].refresh_token = pre.users[i].refresh_token
               /\ users[i].avatar = pre.users[i].avatar
               /\ users[i].email = pre.users[i].email

\* C35's case: reset completion was given an unexpired token of an existing,
\* unconfirmed user and reached the repository call
C35_Witness ==
    /\ ResetNewDone
    /\ Decodes(last.token, now)
    /\ get_user_by_email(last.token.sub, pre.users) # NoUser
    /\ ~get_user_by_email(last.token.sub, pre.users).confirmed
    /\ last.status \notin {422, 406}

\* C36: whatever operations on accounts and sessions have run, a user whose
\* stored refresh token is not null is confirmed; the operation just handled
\* left every confirmed user confirmed; and every access or refresh token the
\* service has issued names a confirmed user.
C36_TokensOnlyForConfirmed ==
    /\ \A i \in DOMAIN users :
           users[i].refresh_token # NullToken => users[i].confirmed
    /\ \A i \in DOMAIN pre.users :
           pre.users[i].confirmed => (i \in DOMAIN users /\ users[i].confirmed)
    /\ \A token \in issued :
           token.scope \in {"access_token", "refresh_token"}
               => get_user_by_email(token.sub, users).confirmed

\* C36's case: a confirmed user holds a refresh token and a further
\* operation on the account (a reset request, a reset completion or a
\* request for a new confirmation email) has been handled
C36_Witness ==
    /\ last.op \in {"reset_password", "reset_password_new", "request_email", "signup"}
    /\ \E i \in DOMAIN users :
           /\ users[i].refresh_token # NullToken
           /\ users[i].confirmed
           /\ Lower(users[i].email) = Lower(last.email)

\* A stored contact other than the one with this id, of any user, has the
\* email or the full name of the body
Clashes(body, table, contact_id) ==
    \E i \in DOMAIN table.rows :
        /\ table.rows[i].id # contact_id
        /\ \/ table.rows[i].email = body.email
           \/ (table.rows[i].name = body.name /\ table.rows[i].lastname = body.lastname)

\* C37: contact uniqueness spans all users: a create_contact is answered
\* 400 "ALREADY EXISTS" exactly when some stored contact, of the caller or of
\* any other user, has the body's email or its (name, lastname) pair, and an
\* update_contact of a contact the caller owns exactly when some other stored
\* contact has; a request answered 400 stores nothing.
C37_UniquenessAcrossUsers ==
    /\ last.op = "create_contact" =>
           /\ (last.status = 400 /\ last.detail = "ALREADY EXISTS")
                  <=> Clashes(last.body, pre.contacts, 0)
           /\ last.status = 400 => contacts.rows = pre.contacts.rows
    /\ (/\ last.op = "update_contact"
        /\ RowWithId(pre.contacts, last.contact_id).user_id = last.user_id)
       => /\ (last.status = 400 /\ last.detail = "ALREADY EXISTS")
                 <=> Clashes(last.body, pre.contacts, last.contact_id)
          /\ last.status = 400 => contacts.rows = pre.contacts.rows

\* C37's case: a create was refused although the caller has no contact with
\* the body's email or full name: the clash is with another user's contact
C37_Witness ==
    /\ last.op = "create_contact"
    /\ last.status = 400
    /\ ~Duplicates(last.body,
                   SelectSeq(pre.contacts.rows, LAMBDA c : c.user_id = last.user_id), {})
    /\ \E i \in DOMAIN pre.contacts.rows :
           /\ pre.contacts.rows[i].user_id # last.user_id
           /\ pre.contacts.rows[i].email = last.body.email

RequestDone == last.op = "request_email"

\* C38: request_email changes no user and nothing in the cache, and enqueues
\* no email for a confirmed user; for an address that no user has it answers
\* 200 "Check your email for confirmation." and enqueues no email.
C38_RequestEmail ==
    RequestDone =>
        LET user == get_user_by_email(last.email, pre.users)
        IN /\ users = pre.users
           /\ cache = pre.cache
           /\ (user # NoUser /\ user.confirmed) => tasks = pre.tasks
           /\ user = NoUser
              => /\ last.status = 200
                 /\ last.detail = "Check your email for confirmation."
                 /\ tasks = pre.tasks

====
